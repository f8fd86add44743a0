------------------------- MODULE DjVuWorker_proofs -------------------------
(* OneAtATime, AnswersAreTheirOwn and MemoryIsCounted of DjVuWorker, proved   *)
(* for any document, directory, limit of the memory, calls, number of         *)
(* commands and faults.                                                       *)
(*                                                                            *)
(* TypeInv types the two threads and what is between them.  OneInv says where *)
(* the one command is; OwnInv whose it is; PagesOwn to which page an object   *)
(* belongs; AllRight what was or will be answered; MemoryInv what is counted. *)
(* A step of the worker is first described by what it does to the document    *)
(* (Touches, Releases, Gets, Grows) and to the command (Posted), a step of    *)
(* the page by what it does to the queue (GivesUp, Settles, SendsNext).       *)
EXTENDS DjVuWorker, TLAPS, FiniteSetTheorems, FunctionTheorems

-----------------------------------------------------------------------------
(* Types. *)

Stages == {"idle", "load", "page", "parts", "blob", "done", "failed"}
ObjectId == Nat \X Nat
PageType == [page : PageNumbers, info : BOOLEAN, parts : SUBSET Shared]
FileNames == {Directory[i] : i \in Nat} \union {Directory[Pages[n]] : n \in Nat}
Given == {<< >>} \union (PageNumbers \X SUBSET Shared) \union FileNames

ChainType == [use : {"png", "draw", "read", "load"}, at : Stages, waits : SUBSET Shared,
              obj : ObjectId, got : Given]
JobType == [id : Nat, page : {0} \union PageNumbers, answered : BOOLEAN, started : Nat,
            chains : Seq(ChainType)]
Taskless == {NoTask} \union Tasks
ClientType == [queue : Seq(Tasks \X Commands), current : Taskless, id : Nat, counter : Nat,
               working : BOOLEAN, hyper : SUBSET Tasks]
CommandType == [task : Tasks, id : Nat, command : Commands]
GivenType == Nat \union Seq(Given)
MessageType == [is : {"progress", "resolved", "failed", "error"}, id : Nat, of : Taskless, got : GivenType]
OutcomeType == [is : {"unasked", "open", "cancelled", "resolved", "failed", "error"},
                of : Taskless, got : GivenType]
ObjectsType == UNION {[ids -> PageType] : ids \in SUBSET ObjectId}
DocType == [kind : {"bundled", "indirect", "single"}, limit : Nat, loaded : Seq(PageNumbers),
            usage : Int, last : ObjectId, depsLoaded : BOOLEAN, djvi : SUBSET Shared,
            pages : [PageNumbers -> ObjectId],
            objs : ObjectsType]

IsObject(d, o) == o \in DOMAIN d.objs
DocOK(d) ==
  /\ d \in DocType
  /\ ~IsObject(d, Absent)
  /\ d.last = Absent \/ IsObject(d, d.last)
  /\ \A n \in PageNumbers : d.pages[n] = Absent \/ IsObject(d, d.pages[n])

Holds(chain) == chain.at \in {"parts", "blob"}

ControlOK ==
  /\ outcome \in [Tasks -> OutcomeType]
  /\ client \in ClientType
  /\ toWorker \in Seq(CommandType)
  /\ toPage \in Seq(MessageType)
  /\ errors \in Nat /\ failures \in Nat
JobsOK == jobs \in [Tasks -> JobType]
ObjectsOK ==
  /\ DocOK(doc)
  /\ \A t \in Tasks : \A c \in DOMAIN jobs[t].chains :
       Holds(jobs[t].chains[c]) => IsObject(doc, jobs[t].chains[c].obj)

TypeInv == ControlOK /\ JobsOK /\ ObjectsOK

-----------------------------------------------------------------------------
(* One command at a time. *)

IsAnswer(message) == message.is \in {"resolved", "failed"}
AllAnswered == \A t \in Tasks : jobs[t].answered
NoAnswer == \A i \in DOMAIN toPage : ~IsAnswer(toPage[i])

Sending == Len(toWorker) = 1 /\ AllAnswered /\ NoAnswer
Working == toWorker = << >> /\ NoAnswer /\ \E t \in Tasks : \A u \in Tasks : jobs[u].answered <=> u # t
Answered == toWorker = << >> /\ AllAnswered /\ \E i \in DOMAIN toPage : \A j \in DOMAIN toPage :
              IsAnswer(toPage[j]) <=> j = i
Idle == toWorker = << >> /\ AllAnswered /\ NoAnswer

OneInv ==
  errors = 0 =>
    /\ \A i \in DOMAIN toPage : toPage[i].is # "error"
    /\ ~client.working => Idle
    /\ client.working => Sending \/ Working \/ Answered

-----------------------------------------------------------------------------
(* Whose command it is. *)

InTransit(t) == \E i \in DOMAIN toWorker : toWorker[i].task = t
NotSent(c, t) == jobs[t].id = NoId /\ ~InTransit(t) /\ c.current # t

\* What is queued has not been sent, nor what was not asked for.
QueueOwn(c, out) ==
  /\ \A i, j \in DOMAIN c.queue : c.queue[i][1] = c.queue[j][1] => i = j
  /\ \A t \in Tasks : out[t].is = "unasked" => NotSent(c, t)
  /\ \A i \in DOMAIN c.queue : out[c.queue[i][1]].is = "open" /\ NotSent(c, c.queue[i][1])
\* What is on its way is not in the worker.
TransitOwn(c) ==
  /\ \A i, j \in DOMAIN toWorker :
       toWorker[i].task = toWorker[j].task \/ toWorker[i].id = toWorker[j].id => i = j
  /\ \A i \in DOMAIN toWorker :
       /\ toWorker[i].id > 0 /\ toWorker[i].id < c.counter
       /\ jobs[toWorker[i].task].id = NoId
       /\ \A t \in Tasks : jobs[t].id # toWorker[i].id
\* A number names one command.
JobsOwn(c) ==
  /\ \A t, u \in Tasks : jobs[t].id = jobs[u].id /\ jobs[t].id # NoId => t = u
  /\ \A t \in Tasks : jobs[t].id < c.counter /\ (jobs[t].id = NoId => jobs[t] = NoJob)
\* The command the page holds for the one at work is on its way or in the worker.
CurrentOwn(c) ==
  /\ c.counter > 0 /\ c.id < c.counter
  /\ c.id = NoId => c.current = NoTask
  /\ c.current # NoTask =>
       \/ \E i \in DOMAIN toWorker : toWorker[i].task = c.current /\ toWorker[i].id = c.id
       \/ jobs[c.current].id = c.id
ClientOwn(c, out) == QueueOwn(c, out) /\ TransitOwn(c) /\ JobsOwn(c) /\ CurrentOwn(c)
AnswersOwn ==
  /\ \A i \in DOMAIN toPage :
       /\ IsAnswer(toPage[i]) => /\ toPage[i].of \in Tasks /\ toPage[i].id # NoId
                                 /\ jobs[toPage[i].of].id = toPage[i].id
       /\ toPage[i].is = "error" => toPage[i].id = NoId
  /\ \A t \in Tasks : outcome[t].is = "resolved" => outcome[t].of = t
OwnInv == ClientOwn(client, outcome) /\ AnswersOwn

\* Pages are numbered from 1, and what a page needs is among the shared files.
LEMMA NeedsFacts ==
  /\ PageNumbers \subseteq Nat \ {0} /\ 0 \notin PageNumbers
  /\ \A n \in PageNumbers : Needs[n] \in Seq(Parts(n)) /\ Parts(n) \subseteq Shared
  /\ \A n \in PageNumbers : \A id \in Parts(n) : \E i \in DOMAIN Needs[n] : Needs[n][i] = id
<1>1. PageNumbers \subseteq Nat \ {0} /\ 0 \notin PageNumbers
  BY DocumentAssumption DEF PageNumbers
<1>2. \A n \in PageNumbers : Needs[n] \in Seq(Parts(n))
  BY DocumentAssumption
<1>3. \A n \in PageNumbers : Parts(n) \subseteq Shared
  BY Zenon DEF Shared
<1>4. \A n \in PageNumbers : \A id \in Parts(n) : \E i \in DOMAIN Needs[n] : Needs[n][i] = id
  BY Zenon DEF Parts, Range
<1> QED BY <1>1, <1>2, <1>3, <1>4

\* The files reached are files of the page, all of them when none is missing.
LEMMA ReachedFacts ==
  ASSUME NEW d, NEW n \in PageNumbers
  PROVE  /\ Reached(d, n) \subseteq Parts(n)
         /\ Reached(d, n) \subseteq Shared
         /\ Parts(n) \subseteq d.djvi => Reached(d, n) = Parts(n)
<1>1. Reached(d, n) \subseteq Parts(n)
  BY Zenon DEF Reached, Parts, Range
<1>2. ASSUME Parts(n) \subseteq d.djvi PROVE Parts(n) \subseteq Reached(d, n)
  <2> SUFFICES ASSUME NEW id \in Parts(n) PROVE id \in Reached(d, n)
    OBVIOUS
  <2>1. PICK i \in DOMAIN Needs[n] : Needs[n][i] = id
    BY NeedsFacts
  <2>2. \A j \in 1 .. i : j \in DOMAIN Needs[n] /\ Needs[n][j] \in Parts(n)
    BY NeedsFacts
  <2> QED BY <1>2, <2>1, <2>2 DEF Reached
<1> QED BY <1>1, <1>2, NeedsFacts

-----------------------------------------------------------------------------
(* Operators on the document. *)

\* What stays when only page objects are touched.
SameFiles(d, e) ==
  /\ e.kind = d.kind /\ e.limit = d.limit /\ e.loaded = d.loaded /\ e.usage = d.usage
  /\ e.djvi = d.djvi /\ e.pages = d.pages

\* A page object is left alone, reset or initialised with the files there are.
Renewed(d, p, q) ==
  /\ q.page = p.page
  /\ q = p \/ ~q.info \/ q.parts = Reached(d, p.page)
Touches(d, e) ==
  /\ DocOK(e) /\ SameFiles(d, e)
  /\ DOMAIN e.objs = DOMAIN d.objs
  /\ \A o \in DOMAIN d.objs : Renewed(d, d.objs[o], e.objs[o])

\* The objects of a document are pages.
LEMMA ObjectType ==
  ASSUME NEW d, DocOK(d), NEW o, IsObject(d, o)
  PROVE  d.objs \in [DOMAIN d.objs -> PageType] /\ DOMAIN d.objs \subseteq ObjectId /\ d.objs[o] \in PageType
         /\ o \in ObjectId /\ d.objs[o].page \in PageNumbers
<1>1. PICK ids \in SUBSET ObjectId : d.objs \in [ids -> PageType]
  <2>1. d.objs \in ObjectsType
    BY DEF DocOK, DocType
  <2> QED BY <2>1 DEF ObjectsType
<1>2. DOMAIN d.objs = ids
  BY <1>1
<1>3. d.objs[o] \in PageType
  BY <1>1, <1>2 DEF IsObject
<1> QED BY <1>1, <1>2, <1>3 DEF IsObject, PageType

\* Replacing one object leaves the rest of the document.
LEMMA PutObject ==
  ASSUME NEW d, DocOK(d), NEW o, IsObject(d, o), NEW p \in PageType
  PROVE  LET e == [d EXCEPT !.objs[o] = p] IN
         /\ DocOK(e) /\ SameFiles(d, e) /\ e.last = d.last
         /\ DOMAIN e.objs = DOMAIN d.objs /\ e.objs[o] = p
         /\ \A x \in DOMAIN d.objs : x # o => e.objs[x] = d.objs[x]
<1> DEFINE e == [d EXCEPT !.objs[o] = p]
<1>1. d \in DocType
  BY DEF DocOK
<1>2. d.objs \in [DOMAIN d.objs -> PageType] /\ DOMAIN d.objs \subseteq ObjectId /\ o \in DOMAIN d.objs
  BY ObjectType DEF IsObject
<1>3. e = [d EXCEPT !.objs = [d.objs EXCEPT ![o] = p]]
  BY <1>1 DEF DocType
<1>4. [d.objs EXCEPT ![o] = p] \in ObjectsType
  BY <1>2 DEF ObjectsType
<1>5. e \in DocType /\ e.objs = [d.objs EXCEPT ![o] = p] /\ SameFiles(d, e) /\ e.last = d.last
  BY <1>1, <1>3, <1>4 DEF DocType, SameFiles
<1> HIDE DEF e
<1>6. DocOK(e) /\ DOMAIN e.objs = DOMAIN d.objs
  BY <1>5, <1>2 DEF DocOK, IsObject, SameFiles
<1> QED BY <1>2, <1>5, <1>6 DEF e

\* A page object as it is made has not been initialised.
LEMMA RawFacts ==
  ASSUME NEW n \in PageNumbers
  PROVE  Raw(n) \in PageType /\ Raw(n).page = n /\ ~Raw(n).info
BY DEF Raw, PageType

\* Nothing done is a touch of the page objects,
LEMMA TouchesItself ==
  ASSUME NEW d, DocOK(d) PROVE Touches(d, d)
BY DEF Touches, SameFiles, Renewed

\* and so are two touches.
LEMMA TouchesTwice ==
  ASSUME NEW d, NEW e, NEW f, Touches(d, e), Touches(e, f) PROVE Touches(d, f)
<1>1. \A n : Reached(d, n) = Reached(e, n)
  BY DEF Touches, SameFiles, Reached
<1>2. \A o \in DOMAIN d.objs : Renewed(d, d.objs[o], f.objs[o])
  BY <1>1 DEF Touches, Renewed
<1> QED BY <1>2 DEF Touches, SameFiles

\* What a reset does to the document,
LEMMA ResetFacts ==
  ASSUME NEW d, DocOK(d), NEW o, o = Absent \/ IsObject(d, o)
  PROVE  /\ Touches(d, ResetPage(d, o)) /\ ResetPage(d, o).last = d.last
         /\ o # Absent => ~ResetPage(d, o).objs[o].info
<1>1. CASE o = Absent
  BY <1>1, TouchesItself DEF ResetPage
<1>2. CASE o # Absent
  <2>1. IsObject(d, o)
    BY <1>2
  <2> DEFINE p == Raw(d.objs[o].page)
             e == [d EXCEPT !.objs[o] = p]
  <2>2. d.objs[o].page \in PageNumbers /\ d \in DocType /\ o \in DOMAIN d.objs
    BY <2>1, ObjectType DEF DocOK, IsObject
  <2>3. p \in PageType /\ p.page = d.objs[o].page /\ ~p.info
    BY <2>2, RawFacts
  <2>4. ResetPage(d, o) = e
    BY <1>2, <2>2 DEF ResetPage, DocType
  <2> HIDE DEF p
  <2>5. /\ DocOK(e) /\ SameFiles(d, e) /\ e.last = d.last
        /\ DOMAIN e.objs = DOMAIN d.objs /\ e.objs[o] = p
        /\ \A x \in DOMAIN d.objs : x # o => e.objs[x] = d.objs[x]
    BY <2>1, <2>3, PutObject
  <2> HIDE DEF e
  <2>6. \A x \in DOMAIN d.objs : Renewed(d, d.objs[x], e.objs[x])
    BY <2>5, <2>3 DEF Renewed
  <2> QED BY <2>3, <2>4, <2>5, <2>6 DEF Touches
<1> QED BY <1>1, <1>2

\* an initialisation,
LEMMA InitFacts ==
  ASSUME NEW d, DocOK(d), NEW o, IsObject(d, o)
  PROVE  /\ Touches(d, InitPage(d, o)) /\ InitPage(d, o).last = d.last
         /\ InitPage(d, o).objs[o].info
         /\ \A x \in DOMAIN d.objs : x # o => InitPage(d, o).objs[x] = d.objs[x]
<1>1. CASE d.objs[o].info
  BY <1>1, TouchesItself DEF InitPage
<1>2. CASE ~d.objs[o].info
  <2> DEFINE p == [d.objs[o] EXCEPT !.info = TRUE, !.parts = Reached(d, d.objs[o].page)]
             e == [d EXCEPT !.objs[o] = p]
  <2>1. d.objs[o] \in PageType /\ d.objs[o].page \in PageNumbers /\ o \in DOMAIN d.objs
    BY ObjectType DEF IsObject
  <2>2. Reached(d, d.objs[o].page) \subseteq Shared
    BY <2>1, ReachedFacts
  <2>3. p \in PageType /\ p.page = d.objs[o].page /\ p.info /\ p.parts = Reached(d, d.objs[o].page)
    BY <2>1, <2>2 DEF PageType
  <2>4. InitPage(d, o) = e
    BY <1>2 DEF InitPage
  <2> HIDE DEF p
  <2>5. /\ DocOK(e) /\ SameFiles(d, e) /\ e.last = d.last
        /\ DOMAIN e.objs = DOMAIN d.objs /\ e.objs[o] = p
        /\ \A x \in DOMAIN d.objs : x # o => e.objs[x] = d.objs[x]
    BY <2>3, PutObject
  <2> HIDE DEF e
  <2>6. \A x \in DOMAIN d.objs : Renewed(d, d.objs[x], e.objs[x])
    BY <2>5, <2>3 DEF Renewed
  <2> QED BY <2>3, <2>4, <2>5, <2>6 DEF Touches
<1> QED BY <1>1, <1>2

\* and a use.
LEMMA UseFacts ==
  ASSUME NEW d, DocOK(d), NEW o, IsObject(d, o), NEW use
  PROVE  Touches(d, UsePage(d, o, use)) /\ UsePage(d, o, use).last = d.last
<1>1. Touches(d, InitPage(d, o)) /\ InitPage(d, o).last = d.last
  BY InitFacts
<1>2. DocOK(InitPage(d, o)) /\ IsObject(InitPage(d, o), o)
  BY <1>1 DEF Touches, IsObject
<1>3. Touches(InitPage(d, o), ResetPage(InitPage(d, o), o)) /\ ResetPage(InitPage(d, o), o).last = d.last
  BY <1>1, <1>2, ResetFacts
<1>4. Touches(d, ResetPage(InitPage(d, o), o))
  BY <1>1, <1>3, TouchesTwice
<1> QED BY <1>1, <1>3, <1>4 DEF UsePage, DrawPage

\* A sequence has no more different items than its length.
LEMMA SequenceRange ==
  ASSUME NEW S, NEW s \in Seq(S)
  PROVE  IsFiniteSet({s[i] : i \in DOMAIN s}) /\ Cardinality({s[i] : i \in DOMAIN s}) <= Len(s)
<1> DEFINE T == {s[i] : i \in DOMAIN s}
<1>1. Len(s) \in Nat /\ DOMAIN s = 1 .. Len(s)
  OBVIOUS
<1>2. s \in Surjection(1 .. Len(s), T)
  BY <1>1 DEF Surjection
<1>3. ExistsSurjection(1 .. Len(s), T)
  BY <1>2 DEF ExistsSurjection
<1> HIDE DEF T
<1> QED BY <1>1, <1>3, FS_SurjCardinalityBound, FS_NatSurjection DEF T

\* The shared files are finitely many.
LEMMA SharedFinite == IsFiniteSet(Shared) /\ \A T \in SUBSET Shared : IsFiniteSet(T)
<1>1. \A n \in PageNumbers : IsFiniteSet(Parts(n))
  <2> TAKE n \in PageNumbers
  <2>1. Parts(n) = {Needs[n][i] : i \in DOMAIN Needs[n]}
    BY Zenon DEF Parts, Range
  <2>2. Needs[n] \in Seq(Parts(n))
    BY NeedsFacts
  <2> DEFINE s == Needs[n]
  <2> HIDE DEF s
  <2>3. s \in Seq(Parts(n)) => IsFiniteSet({s[i] : i \in DOMAIN s})
    BY SequenceRange
  <2> QED BY <2>1, <2>2, <2>3 DEF s
<1> DEFINE f == [n \in PageNumbers |-> Parts(n)]
           T == {Parts(n) : n \in PageNumbers}
<1>2. Len(Needs) \in Nat /\ PageNumbers = 1 .. Len(Needs)
  BY DocumentAssumption DEF PageNumbers
<1>3. f \in Surjection(1 .. Len(Needs), T)
  BY <1>2 DEF Surjection
<1>4. ExistsSurjection(1 .. Len(Needs), T)
  BY <1>3 DEF ExistsSurjection
<1> HIDE DEF f
<1>5. IsFiniteSet(T)
  BY <1>2, <1>4, FS_NatSurjection
<1>6. IsFiniteSet(UNION T)
  BY <1>1, <1>5, FS_UNION
<1>7. IsFiniteSet(Shared)
  BY <1>6 DEF Shared
<1> QED BY <1>7, FS_Subset

-----------------------------------------------------------------------------
(* Getting a page. *)

\* Asking for a page only touches the objects.
LEMMA AskFacts ==
  ASSUME NEW d, DocOK(d), NEW n \in PageNumbers
  PROVE  Touches(d, AskForPage(d, n)) /\ AskForPage(d, n).last = d.pages[n]
<1> DEFINE e == IF d.last # d.pages[n] THEN ResetPage(d, d.last) ELSE d
<1>1. Touches(d, e)
  BY ResetFacts, TouchesItself DEF DocOK
<1>2. AskForPage(d, n) = [e EXCEPT !.last = d.pages[n]]
  BY DEF AskForPage
<1> HIDE DEF e
<1>3. d.pages[n] \in ObjectId /\ (d.pages[n] = Absent \/ IsObject(e, d.pages[n]))
  BY <1>1 DEF DocOK, DocType, Touches, IsObject
<1> DEFINE f == [e EXCEPT !.last = d.pages[n]]
<1>4. e \in DocType
  BY <1>1 DEF Touches, DocOK
<1>5. f \in DocType /\ f.last = d.pages[n] /\ f.objs = e.objs /\ SameFiles(e, f)
  BY <1>3, <1>4 DEF DocType, SameFiles
<1> HIDE DEF f
<1>6. DocOK(f)
  BY <1>1, <1>3, <1>5 DEF DocOK, Touches, IsObject, SameFiles
<1>7. Touches(d, f)
  BY <1>1, <1>5, <1>6 DEF Touches, SameFiles
<1> QED BY <1>2, <1>5, <1>7 DEF f

\* A file of a page that arrives makes an object and counts for 1,
LEMMA TakePageFacts ==
  ASSUME NEW d, DocOK(d), NEW n \in PageNumbers, NEW o \in ObjectId, o # Absent
  PROVE  LET e == TakePage(d, n, o) IN
         /\ DocOK(e) /\ e.usage = d.usage + 1 /\ SameFiles([d EXCEPT !.usage = @ + 1], e)
         /\ e.last = d.last
         /\ DOMAIN e.objs = DOMAIN d.objs \union {o} /\ e.objs[o] = Raw(n)
         /\ \A x \in DOMAIN d.objs : x # o => e.objs[x] = d.objs[x]
<1> DEFINE e == TakePage(d, n, o)
           objs == [p \in {o} \union DOMAIN d.objs |-> IF p = o THEN Raw(n) ELSE d.objs[p]]
           f == [d EXCEPT !.usage = @ + 1]
<1>1. d \in DocType
  BY DEF DocOK
<1>2. PICK ids \in SUBSET ObjectId : d.objs \in [ids -> PageType]
  <2>1. d.objs \in ObjectsType
    BY <1>1 DEF DocType
  <2> QED BY <2>1 DEF ObjectsType
<1>3. DOMAIN d.objs = ids /\ {o} \union ids \in SUBSET ObjectId
  BY <1>2
<1>4. objs \in [{o} \union ids -> PageType]
  BY <1>2, <1>3, RawFacts
<1>5. objs \in ObjectsType
  BY <1>3, <1>4 DEF ObjectsType
<1> DEFINE u == d.usage + 1
<1>6. e = [d EXCEPT !.usage = u, !.objs = objs] /\ f = [d EXCEPT !.usage = u] /\ u \in Int
  BY <1>1 DEF TakePage, DocType
<1>7. DOMAIN objs = DOMAIN d.objs \union {o} /\ objs[o] = Raw(n) /\ \A x \in DOMAIN d.objs : x # o => objs[x] = d.objs[x]
  OBVIOUS
<1> HIDE DEF objs, u, e, f
<1>8. e \in DocType /\ e.objs = objs /\ e.usage = u /\ e.last = d.last /\ e.pages = d.pages /\ SameFiles(f, e)
  BY <1>1, <1>5, <1>6 DEF DocType, SameFiles
<1>9. DocOK(e)
  BY <1>7, <1>8 DEF DocOK, IsObject
<1> QED BY <1>7, <1>8, <1>9 DEF e, f, u

\* and so does a shared file.
LEMMA TakePartFacts ==
  ASSUME NEW d, DocOK(d), NEW id \in Shared
  PROVE  LET e == TakePart(d, id) IN
         /\ DocOK(e) /\ e.objs = d.objs /\ e.last = d.last
         /\ e.usage = d.usage + 1 /\ e.djvi = d.djvi \union {id}
         /\ e.kind = d.kind /\ e.limit = d.limit /\ e.loaded = d.loaded /\ e.pages = d.pages
<1> DEFINE e == TakePart(d, id)
           u == d.usage + 1
           held == d.djvi \union {id}
<1>1. d \in DocType
  BY DEF DocOK
<1>0. u \in Int /\ held \in SUBSET Shared /\ e = [d EXCEPT !.usage = u, !.djvi = held]
  BY <1>1 DEF TakePart, DocType
<1> HIDE DEF u, held, e
<1>2. /\ e \in DocType /\ e.objs = d.objs /\ e.last = d.last
      /\ e.usage = u /\ e.djvi = held
      /\ e.kind = d.kind /\ e.limit = d.limit /\ e.loaded = d.loaded /\ e.pages = d.pages
  BY <1>1, <1>0 DEF DocType
<1>3. DocOK(e)
  BY <1>2 DEF DocOK, IsObject
<1> QED BY <1>2, <1>3 DEF e, u, held

\* A page kept is the last one, and listed.
LEMMA KeepPageFacts ==
  ASSUME NEW d, DocOK(d), NEW n \in PageNumbers, NEW o, IsObject(d, o)
  PROVE  LET e == KeepPage(d, n, o) IN
         /\ DocOK(e) /\ e.objs = d.objs /\ e.last = o
         /\ e.usage = d.usage /\ e.djvi = d.djvi /\ e.kind = d.kind /\ e.limit = d.limit
         /\ e.loaded = Append(d.loaded, n) /\ e.pages = [d.pages EXCEPT ![n] = o]
<1> DEFINE e == KeepPage(d, n, o)
           pages == [d.pages EXCEPT ![n] = o]
           loaded == Append(d.loaded, n)
<1>1. d \in DocType /\ o \in ObjectId
  BY ObjectType DEF DocOK
<1>0. /\ d.pages \in [PageNumbers -> ObjectId] /\ pages \in [PageNumbers -> ObjectId]
      /\ loaded \in Seq(PageNumbers)
      /\ e = [d EXCEPT !.pages = pages, !.loaded = loaded, !.last = o]
  BY <1>1 DEF KeepPage, DocType
<1>4. \A m \in PageNumbers : pages[m] = o \/ pages[m] = d.pages[m]
  BY <1>0
<1> HIDE DEF pages, loaded, e
<1>2. /\ e \in DocType /\ e.objs = d.objs /\ e.last = o
      /\ e.usage = d.usage /\ e.djvi = d.djvi /\ e.kind = d.kind /\ e.limit = d.limit
      /\ e.loaded = loaded /\ e.pages = pages
  BY <1>1, <1>0 DEF DocType
<1>3. DocOK(e)
  BY <1>1, <1>2, <1>4 DEF DocOK, IsObject
<1> QED BY <1>2, <1>3 DEF e, pages, loaded

-----------------------------------------------------------------------------
(* Releasing memory. *)

\* Every page the document keeps is in the list of those that may be dropped.
Listed(d) == \A n \in PageNumbers : d.pages[n] # Absent => \E i \in DOMAIN d.loaded : d.loaded[i] = n

\* What is counted beyond the pages of the list and the shared files.
Slack(d) == d.usage - Len(d.loaded) - Cardinality(d.djvi)

Releases(d, e) ==
  /\ DocOK(e) /\ e.kind = d.kind /\ e.limit = d.limit
  /\ DOMAIN e.objs = DOMAIN d.objs
  /\ \A o \in DOMAIN d.objs : e.objs[o].page = d.objs[o].page /\ (e.objs[o] = d.objs[o] \/ ~e.objs[o].info)
  /\ \A n \in PageNumbers : e.pages[n] = Absent \/ e.pages[n] = d.pages[n]
  /\ Listed(d) => Listed(e)
  /\ Slack(e) >= Slack(d)

\* Dropping the pages loaded longest ago uncounts each of them.
LEMMA DropPagesFacts ==
  ASSUME NEW d, DocOK(d), NEW k \in 0 .. Len(d.loaded)
  PROVE  LET e == DropPages(d, k) IN
         /\ Releases(d, e) /\ Slack(e) = Slack(d) /\ e.usage = d.usage - k
         /\ e.objs = d.objs /\ e.last = d.last /\ e.djvi = d.djvi
         /\ e.loaded = SubSeq(d.loaded, k + 1, Len(d.loaded))
<1> DEFINE e == DropPages(d, k)
           gone == {d.loaded[i] : i \in 1 .. k}
           pages == [p \in PageNumbers |-> IF p \in gone THEN Absent ELSE d.pages[p]]
           loaded == SubSeq(d.loaded, k + 1, Len(d.loaded))
<1>1. d \in DocType
  BY DEF DocOK
<1>2. d.loaded \in Seq(PageNumbers) /\ Len(d.loaded) \in Nat /\ d.pages \in [PageNumbers -> ObjectId] /\ d.usage \in Int
  BY <1>1 DEF DocType
<1>3. loaded \in Seq(PageNumbers) /\ Len(loaded) = Len(d.loaded) - k /\ \A i \in 1 .. Len(loaded) : loaded[i] = d.loaded[i + k]
  BY <1>2
<1>4. pages \in [PageNumbers -> ObjectId]
  BY <1>2 DEF Absent, ObjectId
<1> DEFINE u == d.usage - k
<1>5. e = [d EXCEPT !.loaded = loaded, !.usage = u, !.pages = pages] /\ u \in Int
  BY <1>1 DEF DropPages, DocType
<1>6. \A n \in PageNumbers : pages[n] = Absent \/ (pages[n] = d.pages[n] /\ n \notin gone)
  OBVIOUS
<1> HIDE DEF pages, loaded, gone, u, e
<1>7. /\ e \in DocType /\ e.kind = d.kind /\ e.limit = d.limit
      /\ e.usage = u /\ e.objs = d.objs /\ e.last = d.last /\ e.djvi = d.djvi
      /\ e.loaded = loaded /\ e.pages = pages
  BY <1>1, <1>3, <1>4, <1>5 DEF DocType
<1>8. DocOK(e)
  BY <1>6, <1>7 DEF DocOK, IsObject
<1>9. Cardinality(d.djvi) \in Nat
  BY <1>1, SharedFinite, FS_CardinalityType DEF DocType
<1>10. Slack(e) = Slack(d)
  BY <1>2, <1>3, <1>7, <1>9 DEF Slack, u
<1>11. ASSUME Listed(d) PROVE Listed(e)
  <2> SUFFICES ASSUME NEW n \in PageNumbers, e.pages[n] # Absent
               PROVE  \E i \in DOMAIN e.loaded : e.loaded[i] = n
    BY DEF Listed
  <2>1. d.pages[n] # Absent /\ n \notin gone
    BY <1>6, <1>7
  <2>2. PICK i \in DOMAIN d.loaded : d.loaded[i] = n
    BY <1>11, <2>1 DEF Listed
  <2>3. i \in Nat /\ i > k /\ i <= Len(d.loaded)
    BY <1>2, <2>1, <2>2 DEF gone
  <2> DEFINE j == i - k
  <2>4. j \in 1 .. Len(loaded) /\ j + k = i
    <3>1. k \in Nat /\ Len(d.loaded) \in Nat /\ Len(loaded) = Len(d.loaded) - k
      BY <1>2, <1>3
    <3> DEFINE a == Len(d.loaded)
               b == Len(loaded)
    <3>2. k \in Nat /\ a \in Nat /\ b = a - k /\ i \in Nat /\ i > k /\ i <= a
      BY <2>3, <3>1
    <3> HIDE DEF a, b
    <3>3. i - k \in 1 .. b /\ (i - k) + k = i
      BY <3>2
    <3> QED BY <3>3 DEF b
  <2> HIDE DEF j
  <2>5. loaded[j] = n /\ j \in DOMAIN loaded
    BY <1>3, <2>2, <2>4
  <2> QED BY <1>7, <2>5
<1>12. Slack(e) >= Slack(d)
  BY <1>2, <1>9, <1>10 DEF Slack
<1> QED BY <1>6, <1>7, <1>8, <1>10, <1>11, <1>12 DEF Releases, e, loaded, u

\* A set of shared files has a size.
LEMMA CountType == ASSUME NEW T \in SUBSET Shared PROVE Cardinality(T) \in Nat
BY SharedFinite, FS_CardinalityType

\* The types of the document's fields,
LEMMA DocFields ==
  ASSUME NEW d, DocOK(d)
  PROVE  /\ d \in DocType
         /\ d.loaded \in Seq(PageNumbers) /\ Len(d.loaded) \in Nat /\ d.usage \in Int /\ d.limit \in Nat
         /\ d.djvi \in SUBSET Shared /\ Cardinality(d.djvi) \in Nat
<1>1. d \in DocType
  BY DEF DocOK
<1>2. /\ d.loaded \in Seq(PageNumbers) /\ d.usage \in Int /\ d.limit \in Nat /\ d.djvi \in SUBSET Shared
  BY <1>1 DEF DocType
<1> QED BY <1>1, <1>2, CountType

\* and of what it counts beyond what it lists.
LEMMA SlackType == ASSUME NEW d, DocOK(d) PROVE Slack(d) \in Int
<1>1. Len(d.loaded) \in Nat /\ d.usage \in Int /\ Cardinality(d.djvi) \in Nat
  BY DocFields
<1> QED BY <1>1 DEF Slack

\* Two releases are one.
LEMMA ReleasesTwice ==
  ASSUME NEW d, NEW e, NEW f, DocOK(d), Releases(d, e), Releases(e, f)
  PROVE  Releases(d, f)
<1>1. DocOK(e) /\ DocOK(f)
  BY DEF Releases
<1>2. Slack(d) \in Int /\ Slack(e) \in Int /\ Slack(f) \in Int
  BY <1>1, SlackType
<1>3. Slack(f) >= Slack(d)
  BY <1>2 DEF Releases
<1> QED BY <1>3 DEF Releases

\* What releaseMemoryIfRequired does besides dropping pages of the list.
CountedAgain(d, held, u) ==
  [ResetPage(d, d.last) EXCEPT !.last = Absent, !.djvi = held, !.usage = u]

\* Counting the shared files again is a release when none is forgotten.
LEMMA CountAgain ==
  ASSUME NEW d, DocOK(d), NEW u \in Int, NEW held \in SUBSET Shared,
         u - Cardinality(held) >= d.usage - Cardinality(d.djvi)
  PROVE  Releases(d, CountedAgain(d, held, u))
<1> DEFINE f == ResetPage(d, d.last)
           e == CountedAgain(d, held, u)
<1>0. e = [f EXCEPT !.last = Absent, !.djvi = held, !.usage = u]
  BY DEF CountedAgain
<1> HIDE DEF e
<1>1. Touches(d, f) /\ \A o \in DOMAIN d.objs : f.objs[o] = d.objs[o] \/ ~f.objs[o].info
  <2>1. Touches(d, f) /\ (d.last # Absent => ~f.objs[d.last].info)
    BY ResetFacts DEF DocOK
  <2>2. \A o \in DOMAIN d.objs : o # d.last => f.objs[o] = d.objs[o]
    BY DocFields DEF ResetPage, DocType
  <2>3. d.last = Absent => f = d
    BY DEF ResetPage
  <2> QED BY <2>1, <2>2, <2>3
<1>2. DocOK(f) /\ SameFiles(d, f) /\ DOMAIN f.objs = DOMAIN d.objs
      /\ \A o \in DOMAIN d.objs : f.objs[o].page = d.objs[o].page
  BY <1>1 DEF Touches, Renewed
<1> HIDE DEF f
<1>3. f \in DocType /\ Absent \in ObjectId
  BY <1>2 DEF DocOK, Absent, ObjectId
<1>4. /\ e \in DocType /\ e.last = Absent /\ e.djvi = held /\ e.usage = u
      /\ e.kind = f.kind /\ e.limit = f.limit
      /\ e.objs = f.objs /\ e.loaded = f.loaded /\ e.pages = f.pages
  BY <1>0, <1>3 DEF DocType
<1>5. DocOK(e)
  BY <1>2, <1>4 DEF DocOK, IsObject
<1>6. Slack(e) >= Slack(d)
  <2>1. e.loaded = d.loaded /\ e.usage = u /\ e.djvi = held
    BY <1>2, <1>4 DEF SameFiles
  <2>2. Len(d.loaded) \in Nat /\ d.usage \in Int /\ Cardinality(d.djvi) \in Nat /\ Cardinality(held) \in Nat
    BY DocFields, CountType
  <2> DEFINE a == Len(d.loaded)
             was == Cardinality(d.djvi)
             is == Cardinality(held)
  <2>3. Slack(e) = u - a - is /\ Slack(d) = d.usage - a - was
    BY <2>1 DEF Slack
  <2>4. a \in Nat /\ was \in Nat /\ is \in Nat /\ u - is >= d.usage - was
    BY <2>2
  <2> HIDE DEF a, was, is
  <2> QED BY <2>2, <2>3, <2>4, SMTT(30)
<1>7. Listed(d) => Listed(e)
  BY <1>2, <1>4 DEF Listed, SameFiles
<1>8. \A n \in PageNumbers : e.pages[n] = Absent \/ e.pages[n] = d.pages[n]
  BY <1>2, <1>4 DEF SameFiles
<1> QED BY <1>1, <1>2, <1>4, <1>5, <1>6, <1>7, <1>8 DEF Releases, SameFiles, e, f

\* No more pages are released than are listed,
LEMMA ReleasedFacts ==
  ASSUME NEW d, DocOK(d) PROVE Released(d) \in 0 .. Len(d.loaded)
<1>1. Len(d.loaded) \in Nat /\ d.usage \in Int /\ d.limit \in Nat
  BY DocFields
<1> QED BY <1>1 DEF Released

\* nor is the first that is listed twice beyond the list.
LEMMA FirstTwiceFacts ==
  ASSUME NEW d, DocOK(d), FirstTwice(d) # {}
  PROVE  Min(FirstTwice(d)) \in 1 .. Len(d.loaded)
<1>1. FirstTwice(d) \subseteq 1 .. Len(d.loaded) /\ Len(d.loaded) \in Nat
  BY ReleasedFacts, DocFields DEF FirstTwice
<1>2. PICK i \in FirstTwice(d) : TRUE
  OBVIOUS
<1>3. \A j \in FirstTwice(d) : i =< j
  <2> SUFFICES ASSUME NEW j \in FirstTwice(d), j < i PROVE FALSE
    BY <1>1, <1>2
  <2>1. j \in 1 .. (i - 1)
    BY <1>1, <1>2
  <2>2. Twice(d, j) /\ ~Twice(d, j)
    BY <1>2, <2>1 DEF FirstTwice
  <2> QED BY <2>2
<1>4. Min(FirstTwice(d)) \in FirstTwice(d)
  BY <1>2, <1>3, Zenon DEF Min
<1> QED BY <1>1, <1>4

\* releaseMemoryIfRequired never uncounts what it still holds, whether it throws or not.
LEMMA ReleaseFacts ==
  ASSUME NEW d, DocOK(d), NEW n \in PageNumbers
  PROVE  LET r == ReleaseMemory(d, n) IN
         r.throws \in BOOLEAN /\ Releases(d, r.doc)
<1> DEFINE r == ReleaseMemory(d, n)
           left == DropPages(d, Released(d))
           cut == DropPages(d, Min(FirstTwice(d)))
<1>1. Releases(d, left) /\ left.djvi = d.djvi /\ left.limit = d.limit
  BY ReleasedFacts, DropPagesFacts DEF Releases
<1>2. DocOK(left)
  BY <1>1 DEF Releases
<1>3. Parts(n) \in SUBSET Shared /\ Cardinality(Parts(n)) \in Nat /\ Cardinality(Reached(d, n)) \in Nat
  BY NeedsFacts, ReachedFacts, CountType
<1>4. CASE FirstTwice(d) # {}
  <2> DEFINE e == [cut EXCEPT !.usage = @ + 1]
             u == cut.usage + 1
  <2>1. r = [throws |-> TRUE, doc |-> e]
    BY <1>4 DEF ReleaseMemory
  <2>2. DocOK(cut) /\ Releases(d, cut) /\ cut.djvi = d.djvi
    <3>1. Min(FirstTwice(d)) \in 0 .. Len(d.loaded)
      BY <1>4, FirstTwiceFacts
    <3>2. Releases(d, cut) /\ cut.djvi = d.djvi
      BY <3>1, DropPagesFacts
    <3> QED BY <3>2 DEF Releases
  <2> HIDE DEF cut, r
  <2>3. cut \in DocType /\ u \in Int /\ e = [cut EXCEPT !.usage = u]
    BY <2>2, DocFields DEF DocType
  <2> HIDE DEF u, e
  <2>4. /\ e \in DocType /\ e.usage = u /\ e.last = cut.last /\ e.djvi = cut.djvi
        /\ e.kind = cut.kind /\ e.limit = cut.limit
        /\ e.objs = cut.objs /\ e.loaded = cut.loaded /\ e.pages = cut.pages
    BY <2>3 DEF DocType
  <2>5. DocOK(e)
    BY <2>2, <2>4 DEF DocOK, IsObject
  <2>6. Slack(e) >= Slack(cut)
    <3> DEFINE a == Len(cut.loaded)
               b == Cardinality(cut.djvi)
    <3>1. a \in Nat /\ b \in Nat /\ cut.usage \in Int
      BY <2>2, DocFields
    <3>2. Slack(e) = u - a - b /\ Slack(cut) = cut.usage - a - b
      BY <2>4 DEF Slack
    <3> HIDE DEF a, b
    <3> QED BY <3>1, <3>2 DEF u
  <2>7. Releases(cut, e)
    BY <2>4, <2>5, <2>6 DEF Releases, Listed
  <2>8. Releases(d, e)
    BY <2>2, <2>7, ReleasesTwice
  <2> QED BY <2>1, <2>2, <2>4, <2>8 DEF r
<1>5. CASE FirstTwice(d) = {} /\ left.usage <= left.limit
  <2>1. r = [throws |-> FALSE, doc |-> left]
    <3>1. ~(left.usage > d.limit)
      BY <1>1, <1>2, <1>5, DocFields
    <3> QED BY <1>5, <3>1 DEF ReleaseMemory
  <2> HIDE DEF left, r
  <2> QED BY <1>1, <2>1 DEF r
<1>6. CASE FirstTwice(d) = {} /\ ~(left.usage <= left.limit) /\ Parts(n) \subseteq d.djvi
  <2> DEFINE e == DropParts(left, n)
             u == left.usage + Cardinality(Parts(n)) - Cardinality(left.djvi)
             held == Parts(n)
  <2>1. left.usage > d.limit
    BY <1>1, <1>2, <1>6, DocFields
  <2>2. r = [throws |-> FALSE, doc |-> e]
    BY <1>1, <1>6, <2>1 DEF ReleaseMemory
  <2>3. e = CountedAgain(left, held, u)
    <3>1. ResetPage(left, left.last).usage = left.usage /\ ResetPage(left, left.last) \in DocType
      BY <1>2, ResetFacts DEF Touches, SameFiles, DocOK
    <3> HIDE DEF left
    <3> DEFINE f == ResetPage(left, left.last)
    <3>2. e = [f EXCEPT !.last = Absent, !.djvi = held, !.usage = u]
      BY <3>1 DEF DropParts, DocType
    <3> QED BY <3>2 DEF CountedAgain
  <2>4. u \in Int /\ held \in SUBSET Shared /\ u - Cardinality(held) >= left.usage - Cardinality(left.djvi)
    BY <1>2, <1>3, DocFields
  <2>5. Releases(left, e)
    <3> HIDE DEF left, u, held
    <3> HIDE DEF left, e, u, held
    <3> QED BY <1>2, <2>3, <2>4, CountAgain
  <2> HIDE DEF left, e
  <2>6. Releases(d, e)
    BY <1>1, <2>5, ReleasesTwice
  <2> QED BY <2>2, <2>5, <2>6
<1>7. CASE FirstTwice(d) = {} /\ ~(left.usage <= left.limit) /\ ~(Parts(n) \subseteq d.djvi)
  <2> DEFINE u == left.usage + Cardinality(Reached(d, n))
             held == left.djvi
             f == ResetPage(left, left.last)
             e == [f EXCEPT !.last = Absent, !.usage = @ + Cardinality(Reached(d, n))]
  <2>1. r = [throws |-> TRUE, doc |-> e]
    BY <1>1, <1>7 DEF ReleaseMemory
  <2>2. e = CountedAgain(left, held, u)
    <3>1. f.usage = left.usage /\ f.djvi = left.djvi /\ f \in DocType
      BY <1>2, ResetFacts DEF Touches, SameFiles, DocOK
    <3> HIDE DEF left, f
    <3>2. e = [f EXCEPT !.last = Absent, !.djvi = held, !.usage = u]
      BY <3>1 DEF DocType
    <3> QED BY <3>2 DEF CountedAgain, f
  <2>3. u \in Int /\ held \in SUBSET Shared /\ u - Cardinality(held) >= left.usage - Cardinality(left.djvi)
    BY <1>2, <1>3, DocFields
  <2>4. Releases(left, e)
    <3> HIDE DEF left, u, held
    <3> HIDE DEF left, e, u, held
    <3> QED BY <1>2, <2>2, <2>3, CountAgain
  <2> HIDE DEF left, e
  <2>5. Releases(d, e)
    BY <1>1, <2>4, ReleasesTwice
  <2> QED BY <1>1, <2>1, <2>4, <2>5
<1> QED BY <1>4, <1>5, <1>6, <1>7

Full(page) == page.info => page.parts = Parts(page.page)
AllFull(d) == \A o \in DOMAIN d.objs : Full(d.objs[o])

\* What a page is shown as.
LEMMA ShownType ==
  ASSUME NEW d, DocOK(d), NEW o, IsObject(d, o)
  PROVE  Shown(d, o) \in PageNumbers \X SUBSET Shared /\ Shown(d, o) \in Given
<1>1. d.objs[o] \in PageType
  BY ObjectType
<1>2. Shown(d, o) \in PageNumbers \X SUBSET Shared
  BY <1>1 DEF Shown, PageType
<1> QED BY <1>2 DEF Given

\* The end of a chain that uses the page object o.
Ends(chain, o, end) ==
  /\ end \in ChainType /\ end.at \in {"failed", "blob", "done"}
  /\ end.waits = chain.waits /\ end.use = chain.use
  /\ Holds(end) => end.obj = o

\* A chain that uses a page ends, or awaits the image.
LEMMA ChainUse ==
  ASSUME NEW d, DocOK(d), NEW o, IsObject(d, o), NEW chain \in ChainType
  PROVE  /\ Touches(d, Use(d, chain, o).doc) /\ Use(d, chain, o).doc.last = d.last
         /\ Ends(chain, o, Use(d, chain, o).chain)
         /\ Use(d, chain, o).chain.at # "failed" =>
              ~InitThrows(d, o) /\ Use(d, chain, o).chain.got = Shown(InitPage(d, o), o)
<1> DEFINE got == Shown(InitPage(d, o), o)
           at == IF chain.use = "png" THEN "blob" ELSE "done"
           failed == [chain EXCEPT !.at = "failed"]
           end == [chain EXCEPT !.at = at, !.obj = o, !.got = got]
<1>1. Touches(d, UsePage(d, o, chain.use)) /\ UsePage(d, o, chain.use).last = d.last
  BY UseFacts
<1>2. got \in Given
  <2>1. DocOK(InitPage(d, o)) /\ IsObject(InitPage(d, o), o)
    BY InitFacts DEF Touches, IsObject
  <2> QED BY <2>1, ShownType
<1>3. at \in {"blob", "done"} /\ at \in Stages /\ o \in ObjectId
  BY ObjectType DEF Stages
<1>4. failed \in ChainType /\ failed.at = "failed" /\ failed.waits = chain.waits /\ failed.use = chain.use
  BY DEF ChainType, Stages
<1>5. CASE InitThrows(d, o)
  <2>1. Use(d, chain, o) = [doc |-> UsePage(d, o, chain.use), chain |-> failed]
    BY <1>5 DEF Use
  <2> HIDE DEF failed
  <2> QED BY <1>1, <1>4, <2>1 DEF Ends, Holds
<1>6. CASE ~InitThrows(d, o)
  <2>1. Use(d, chain, o) = [doc |-> UsePage(d, o, chain.use), chain |-> end]
    BY <1>6 DEF Use
  <2> HIDE DEF at, got
  <2>2. /\ end \in ChainType /\ end.at = at /\ end.obj = o /\ end.got = got
        /\ end.waits = chain.waits /\ end.use = chain.use
    BY <1>2, <1>3 DEF ChainType
  <2> HIDE DEF end
  <2> QED BY <1>1, <1>3, <1>6, <2>1, <2>2 DEF Ends, Holds, got
<1> QED BY <1>5, <1>6

\* An initialisation that does not throw gives the page all its files;
LEMMA InitFull ==
  ASSUME NEW d, DocOK(d), NEW o, IsObject(d, o), AllFull(d), ~InitThrows(d, o)
  PROVE  AllFull(InitPage(d, o)) /\ Shown(InitPage(d, o), o) = <<d.objs[o].page, Parts(d.objs[o].page)>>
<1> DEFINE e == InitPage(d, o)
           n == d.objs[o].page
<1>1. /\ DOMAIN e.objs = DOMAIN d.objs /\ e.objs[o].info /\ e.objs[o].page = n
      /\ \A x \in DOMAIN d.objs : x # o => e.objs[x] = d.objs[x]
      /\ e.objs[o] = d.objs[o] \/ e.objs[o].parts = Reached(d, n)
      /\ n \in PageNumbers
  BY InitFacts, ObjectType DEF Touches, Renewed, IsObject
<1>2. e.objs[o].parts = Parts(n)
  <2>1. CASE d.objs[o].info
    BY <2>1 DEF InitPage, AllFull, Full, IsObject
  <2>2. CASE ~d.objs[o].info
    <3>1. Parts(n) \subseteq d.djvi
      BY <2>2 DEF InitThrows
    <3> QED BY <1>1, <2>2, <3>1, ReachedFacts
  <2> QED BY <2>1, <2>2
<1> HIDE DEF e
<1>3. AllFull(e)
  BY <1>1, <1>2 DEF AllFull, Full
<1> QED BY <1>1, <1>2, <1>3 DEF Shown, e

\* a reset page lacks none;
LEMMA ResetFull ==
  ASSUME NEW d, DocOK(d), NEW o, o = Absent \/ IsObject(d, o), AllFull(d)
  PROVE  AllFull(ResetPage(d, o))
<1>1. Touches(d, ResetPage(d, o)) /\ (o # Absent => ~ResetPage(d, o).objs[o].info)
  BY ResetFacts
<1>2. \A x \in DOMAIN d.objs : x # o => ResetPage(d, o).objs[x] = d.objs[x]
  BY DocFields DEF ResetPage, DocType
<1>3. o = Absent => ResetPage(d, o) = d
  BY DEF ResetPage
<1> QED BY <1>1, <1>2, <1>3 DEF AllFull, Full, Touches

\* and so a use that does not throw shows all of them.
LEMMA UseFull ==
  ASSUME NEW d, DocOK(d), NEW o, IsObject(d, o), AllFull(d), NEW chain \in ChainType,
         Use(d, chain, o).chain.at # "failed"
  PROVE  /\ AllFull(Use(d, chain, o).doc)
         /\ Use(d, chain, o).chain.got = <<d.objs[o].page, Parts(d.objs[o].page)>>
<1>1. ~InitThrows(d, o) /\ Use(d, chain, o).chain.got = Shown(InitPage(d, o), o)
  BY ChainUse
<1>2. AllFull(InitPage(d, o)) /\ Shown(InitPage(d, o), o) = <<d.objs[o].page, Parts(d.objs[o].page)>>
  BY <1>1, InitFull
<1>3. DocOK(InitPage(d, o)) /\ IsObject(InitPage(d, o), o)
  BY InitFacts DEF Touches, IsObject
<1>4. AllFull(ResetPage(InitPage(d, o), o))
  BY <1>2, <1>3, ResetFull
<1>5. Use(d, chain, o).doc = UsePage(d, o, chain.use)
  BY DEF Use
<1> QED BY <1>1, <1>2, <1>4, <1>5 DEF UsePage, DrawPage

\* The states in which the chains of a page find its object are touches.
LEMMA WithFacts ==
  ASSUME NEW d, DocOK(d), NEW o, IsObject(d, o), NEW chains \in Seq(ChainType), NEW seen \in UseAll(d, chains, o),
         NEW c \in 1 .. (Len(chains) + 1)
  PROVE  /\ Touches(d, With(d, o, seen[c])) /\ With(d, o, seen[c]).last = d.last
         /\ AllFull(d) /\ Full(seen[c]) => AllFull(With(d, o, seen[c]))
<1> DEFINE p == seen[c]
           e == With(d, o, p)
           reset == ResetPage(d, o)
           init == InitPage(reset, o)
<1>1. p \in {d.objs[o], reset.objs[o], init.objs[o]}
  BY DEF UseAll
<1>2. o # Absent /\ d.objs[o] \in PageType /\ d.objs[o].page \in PageNumbers
  BY ObjectType DEF DocOK
<1>3. Touches(d, reset) /\ DocOK(reset) /\ IsObject(reset, o)
  BY ResetFacts DEF Touches, IsObject
<1>4. Touches(reset, init)
  BY <1>3, InitFacts
<1>5. Touches(d, init)
  BY <1>3, <1>4, TouchesTwice
<1>6. /\ Renewed(d, d.objs[o], p)
      /\ p \in PageType
  <2>1. Renewed(d, d.objs[o], d.objs[o]) /\ Renewed(d, d.objs[o], reset.objs[o]) /\ Renewed(d, d.objs[o], init.objs[o])
    BY <1>3, <1>5, TouchesItself DEF Touches, IsObject
  <2>2. reset.objs[o] \in PageType /\ init.objs[o] \in PageType
    BY <1>3, <1>5, ObjectType DEF Touches, IsObject
  <2> HIDE DEF reset, init
  <2> QED BY <1>1, <1>2, <2>1, <2>2
<1> HIDE DEF p
<1>7. /\ DocOK(e) /\ SameFiles(d, e) /\ e.last = d.last
      /\ DOMAIN e.objs = DOMAIN d.objs /\ e.objs[o] = p
      /\ \A x \in DOMAIN d.objs : x # o => e.objs[x] = d.objs[x]
  BY <1>6, PutObject DEF With
<1> HIDE DEF e
<1>8. Touches(d, e)
  <2>1. \A x \in DOMAIN d.objs : Renewed(d, d.objs[x], e.objs[x])
    BY <1>6, <1>7 DEF Renewed
  <2> QED BY <1>7, <2>1 DEF Touches
<1>9. AllFull(d) /\ Full(p) => AllFull(e)
  BY <1>7 DEF AllFull
<1> QED BY <1>7, <1>8, <1>9 DEF e, p

\* A set of naturals that is not empty has a least element.
LEMMA LeastNatural ==
  ASSUME NEW B \in SUBSET Nat, B # {}
  PROVE  \E b \in B : \A x \in B : b <= x
<1> DEFINE T == {1 .. b : b \in B}
           R == StrictSubsetOrdering(Nat)
<1>1. T \subseteq FiniteSubsetsOf(Nat) /\ T # {}
  <2>1. \A b \in B : 1 .. b \in SUBSET Nat /\ IsFiniteSet(1 .. b)
    BY FS_Interval
  <2> QED BY <2>1 DEF FiniteSubsetsOf
<1>2. \E x \in T : \A y \in T : <<y, x>> \notin R
  <2>1. IsWellFoundedOn(R, FiniteSubsetsOf(Nat))
    BY FS_StrictSubsetOrderingWellFounded
  <2> HIDE DEF T, R
  <2> QED BY <1>1, <2>1, WFMin
<1>3. PICK b \in B : \A y \in T : <<y, 1 .. b>> \notin R
  BY <1>2
<1>4. ASSUME NEW x \in B, x < b PROVE FALSE
  <2>1. <<1 .. x, 1 .. b>> \notin R
    BY <1>3
  <2>2. 1 .. x \subseteq 1 .. b /\ b \in 1 .. b /\ b \notin 1 .. x
    BY <1>4
  <2>3. 1 .. x # 1 .. b /\ 1 .. x \in SUBSET Nat /\ 1 .. b \in SUBSET Nat
    BY <2>2
  <2> QED BY <2>1, <2>2, <2>3 DEF StrictSubsetOrdering
<1> QED BY <1>4

\* The chains of one command that use a page one after another, none of which fails, never
\* see it without a file it includes.
LEMMA UseAllFull ==
  ASSUME NEW d, DocOK(d), NEW o, IsObject(d, o), NEW chains \in Seq(ChainType), NEW seen \in UseAll(d, chains, o),
         AllFull(d), \A c \in DOMAIN chains : Use(With(d, o, seen[c]), chains[c], o).chain.at # "failed"
  PROVE  \A c \in 1 .. (Len(chains) + 1) : Full(seen[c])
<1> DEFINE len == Len(chains)
           B == {c \in 1 .. (len + 1) : ~Full(seen[c])}
<1>1. len \in Nat /\ DOMAIN chains = 1 .. len /\ \A c \in DOMAIN chains : chains[c] \in ChainType
  OBVIOUS
<1>2. /\ seen[1] = d.objs[o]
      /\ \A c \in DOMAIN chains : seen[c + 1] = Use(With(d, o, seen[c]), chains[c], o).doc.objs[o]
  BY DEF UseAll
<1> SUFFICES ASSUME B # {} PROVE FALSE
  OBVIOUS
<1>3. PICK b \in B : \A x \in B : b <= x
  <2>1. B \in SUBSET Nat
    BY <1>1
  <2> HIDE DEF B
  <2> QED BY <2>1, LeastNatural
<1>4. b # 1
  BY <1>2, <1>3 DEF AllFull, IsObject
<1> DEFINE c == b - 1
<1>5. c \in 1 .. len /\ c + 1 = b /\ c \in 1 .. (len + 1)
  BY <1>1, <1>3, <1>4
<1> HIDE DEF c
<1>6. Full(seen[c])
  BY <1>3, <1>5
<1> DEFINE e == With(d, o, seen[c])
<1>7. AllFull(e) /\ DocOK(e) /\ IsObject(e, o)
  <2>1. Touches(d, e) /\ (AllFull(d) /\ Full(seen[c]) => AllFull(e))
    BY <1>5, WithFacts
  <2> QED BY <1>6, <2>1 DEF Touches, IsObject
<1>8. Touches(e, Use(e, chains[c], o).doc) /\ AllFull(Use(e, chains[c], o).doc)
  BY <1>1, <1>5, <1>7, ChainUse, UseFull
<1>9. Full(Use(e, chains[c], o).doc.objs[o])
  BY <1>7, <1>8 DEF AllFull, Touches, IsObject
<1> QED BY <1>1, <1>2, <1>3, <1>5, <1>9

\* What getting page n with the object o makes of the document.
Gets(d, e, n, o) ==
  /\ DocOK(e) /\ e.kind = d.kind /\ e.limit = d.limit
  /\ DOMAIN e.objs = DOMAIN d.objs /\ \A x \in DOMAIN d.objs : e.objs[x].page = d.objs[x].page
  /\ \A m \in PageNumbers : e.pages[m] = Absent \/ e.pages[m] = d.pages[m] \/ (m = n /\ e.pages[m] = o)
  /\ d.kind = "indirect" /\ Listed(d) => Listed(e)
  /\ d.kind = "indirect" => Slack(e) >= Slack(d) - 1

\* A touch is a step of getting a page,
LEMMA TouchesGets ==
  ASSUME NEW d, DocOK(d), NEW e, Touches(d, e), NEW n \in PageNumbers, NEW o
  PROVE  Gets(d, e, n, o) /\ Slack(e) = Slack(d)
<1>1. Slack(e) = Slack(d)
  BY DEF Slack, Touches, SameFiles
<1>2. Slack(e) >= Slack(d) - 1
  BY <1>1, SlackType
<1> QED BY <1>1, <1>2 DEF Gets, Touches, SameFiles, Renewed, Listed

\* so is a release followed by keeping the page,
LEMMA KeepGets ==
  ASSUME NEW d, DocOK(d), NEW e, NEW n \in PageNumbers, NEW o, IsObject(d, o),
         Releases(d, e), d.kind = "indirect"
  PROVE  Gets(d, KeepPage(e, n, o), n, o) /\ IsObject(KeepPage(e, n, o), o)
         /\ KeepPage(e, n, o).objs = e.objs
<1> DEFINE f == KeepPage(e, n, o)
<1>1. DocOK(e) /\ IsObject(e, o) /\ e.pages \in [PageNumbers -> ObjectId] /\ e.loaded \in Seq(PageNumbers)
  BY DocFields DEF Releases, IsObject, DocType
<1>2. /\ DocOK(f) /\ f.objs = e.objs /\ f.last = o
      /\ f.usage = e.usage /\ f.djvi = e.djvi /\ f.kind = e.kind /\ f.limit = e.limit
      /\ f.loaded = Append(e.loaded, n) /\ f.pages = [e.pages EXCEPT ![n] = o]
  BY <1>1, KeepPageFacts
<1>3. \A m \in PageNumbers : IF m = n THEN f.pages[m] = o ELSE f.pages[m] = e.pages[m]
  BY <1>1, <1>2
<1> DEFINE len == Len(e.loaded)
<1>4. /\ len \in Nat /\ Len(f.loaded) = len + 1 /\ f.loaded[len + 1] = n
      /\ DOMAIN f.loaded = 1 .. (len + 1) /\ DOMAIN e.loaded = 1 .. len
      /\ \A i \in 1 .. len : f.loaded[i] = e.loaded[i]
  BY <1>1, <1>2
<1>9. len = Len(e.loaded)
  OBVIOUS
<1> HIDE DEF f, len
<1>5. Slack(f) = Slack(e) - 1
  <2>1. Slack(f) = e.usage - (len + 1) - Cardinality(e.djvi)
    BY <1>2, <1>4 DEF Slack
  <2>2. e.usage \in Int /\ Cardinality(e.djvi) \in Nat
    BY <1>1, DocFields
  <2> DEFINE k == Cardinality(e.djvi)
  <2>3. Slack(e) = e.usage - len - k
    BY <1>9 DEF Slack
  <2>4. len \in Nat /\ k \in Nat /\ e.usage \in Int /\ Slack(f) = e.usage - (len + 1) - k
    BY <1>4, <2>1, <2>2
  <2> HIDE DEF k
  <2> QED BY <2>3, <2>4
<1>6. Slack(f) >= Slack(d) - 1
  BY <1>1, <1>5, SlackType DEF Releases
<1>7. ASSUME Listed(e) PROVE Listed(f)
  <2> SUFFICES ASSUME NEW m \in PageNumbers, f.pages[m] # Absent
               PROVE  \E i \in DOMAIN f.loaded : f.loaded[i] = m
    BY DEF Listed
  <2>1. CASE m = n
    BY <1>4, <2>1
  <2>2. CASE m # n
    <3>1. PICK i \in DOMAIN e.loaded : e.loaded[i] = m
      BY <1>3, <1>7, <2>2 DEF Listed
    <3>3. DOMAIN e.loaded = 1 .. len /\ len \in Nat
      BY <1>4
    <3>4. i \in 1 .. len
      BY <3>1, <3>3
    <3>2. i \in 1 .. len /\ i \in 1 .. (len + 1)
      BY <3>3, <3>4
    <3> QED BY <1>4, <3>1, <3>2
  <2> QED BY <2>1, <2>2
<1>8. Gets(d, f, n, o)
  BY <1>1, <1>2, <1>3, <1>6, <1>7 DEF Gets, Releases
<1> QED BY <1>1, <1>2, <1>8 DEF IsObject, f

\* and so is such a step followed by a touch.
LEMMA GetsTouches ==
  ASSUME NEW d, DocOK(d), NEW e, NEW f, NEW n \in PageNumbers, NEW o, Gets(d, e, n, o), Touches(e, f)
  PROVE  Gets(d, f, n, o)
<1>1. Slack(f) = Slack(e)
  BY DEF Slack, Touches, SameFiles
<1>2. \A x \in DOMAIN d.objs : f.objs[x].page = d.objs[x].page
  BY DEF Gets, Touches, Renewed
<1>3. Listed(e) => Listed(f)
  BY DEF Listed, Touches, SameFiles
<1> QED BY <1>1, <1>2, <1>3 DEF Gets, Touches, SameFiles

\* A chain that has all its files ends or goes on to its image.
LEMMA GotFacts ==
  ASSUME NEW t, NEW c, NEW d, DocOK(d), NEW chain \in ChainType, IsObject(d, chain.obj),
         jobs[t].page \in PageNumbers, d.objs[chain.obj].page = jobs[t].page,
         GotPage(t, c, d, chain)
  PROVE  \E end : /\ Ends(chain, chain.obj, end)
                  /\ Post(t, SetChain(t, c, end), << >>)
                  /\ Gets(d, doc', jobs[t].page, chain.obj)
                  /\ AllFull(d) /\ end.at # "failed" =>
                       AllFull(doc') /\ end.got = <<jobs[t].page, Parts(jobs[t].page)>>
<1> DEFINE n == jobs[t].page
           o == chain.obj
           r == ReleaseMemory(d, n)
           ready == [d EXCEPT !.depsLoaded = TRUE]
           failed == [chain EXCEPT !.at = "failed"]
<1>1. failed \in ChainType /\ failed.at = "failed" /\ failed.waits = chain.waits /\ failed.use = chain.use
  BY DEF ChainType, Stages
<1>2. Ends(chain, o, failed)
  <2> HIDE DEF failed
  <2> QED BY <1>1 DEF Ends, Holds
<1>3. Touches(d, ready) /\ ready.objs = d.objs
  <2>1. d \in DocType
    BY DEF DocOK
  <2>2. /\ ready \in DocType /\ ready.objs = d.objs /\ ready.last = d.last
        /\ SameFiles(d, ready)
    BY <2>1 DEF DocType, SameFiles
  <2> HIDE DEF ready
  <2> QED BY <2>2 DEF Touches, DocOK, IsObject, SameFiles, Renewed
<1>4. Releases(d, r.doc) /\ r.throws \in BOOLEAN
  BY ReleaseFacts
\* A chain that uses the document e, once all is there.
<1>5. ASSUME NEW e, DocOK(e), Gets(d, e, n, o), IsObject(e, o), AllFull(d) => AllFull(e),
             doc' = Use(e, chain, o).doc, Post(t, SetChain(t, c, Use(e, chain, o).chain), << >>)
      PROVE  \E end : /\ Ends(chain, o, end)
                      /\ Post(t, SetChain(t, c, end), << >>)
                      /\ Gets(d, doc', n, o)
                      /\ AllFull(d) /\ end.at # "failed" => AllFull(doc') /\ end.got = <<n, Parts(n)>>
  <2> DEFINE end == Use(e, chain, o).chain
  <2>1. Touches(e, doc') /\ Ends(chain, o, end)
    BY <1>5, ChainUse
  <2>2. Gets(d, doc', n, o)
    BY <1>5, <2>1, GetsTouches
  <2>3. ASSUME AllFull(d), end.at # "failed" PROVE AllFull(doc') /\ end.got = <<n, Parts(n)>>
    <3>1. AllFull(doc') /\ end.got = <<e.objs[o].page, Parts(e.objs[o].page)>>
      BY <1>5, <2>3, UseFull
    <3>2. e.objs[o].page = n
      BY <1>5 DEF Gets, IsObject
    <3> QED BY <3>1, <3>2
  <2> HIDE DEF end
  <2> QED BY <1>5, <2>1, <2>2, <2>3 DEF end
<1>6. CASE d.kind = "indirect" /\ r.throws
  <2>1. doc' = r.doc /\ Post(t, SetChain(t, c, failed), << >>)
    BY <1>6, SMTT(30) DEF GotPage
  <2>2. Gets(d, r.doc, n, o)
    BY <1>4, <1>6, SlackType, SMTT(30) DEF Gets, Releases
  <2> HIDE DEF failed
  <2> QED BY <1>1, <1>2, <2>1, <2>2
<1>7. CASE d.kind = "indirect" /\ ~r.throws
  <2> DEFINE e == KeepPage(r.doc, n, o)
  <2>1. doc' = Use(e, chain, o).doc /\ Post(t, SetChain(t, c, Use(e, chain, o).chain), << >>)
    BY <1>7 DEF GotPage
  <2>2. Gets(d, e, n, o) /\ IsObject(e, o) /\ e.objs = r.doc.objs
    BY <1>4, <1>7, KeepGets, SMTT(30)
  <2>3. AllFull(d) => AllFull(e)
    BY <1>4, <2>2 DEF AllFull, Full, Releases
  <2> HIDE DEF e
  <2> QED BY <1>5, <2>1, <2>2, <2>3 DEF Gets
<1>8. CASE d.kind # "indirect"
  <2>1. doc' = Use(ready, chain, o).doc /\ Post(t, SetChain(t, c, Use(ready, chain, o).chain), << >>)
    <3> DEFINE kept == [throws |-> FALSE, doc |-> ready]
    <3>1. kept.throws = FALSE /\ kept.doc = ready
      OBVIOUS
    <3>2. \E released \in {kept} :
            \/ released.throws
            \/ /\ ~released.throws
               /\ \E all \in {released.doc} :
                    LET used == Use(all, chain, o) IN
                    doc' = used.doc /\ Post(t, SetChain(t, c, used.chain), << >>)
      BY <1>8, Zenon DEF GotPage
    <3> HIDE DEF kept, ready
    <3> QED BY <3>1, <3>2
  <2>2. Gets(d, ready, n, o)
    BY <1>3, TouchesGets
  <2>3. DocOK(ready) /\ IsObject(ready, o) /\ (AllFull(d) => AllFull(ready))
    BY <1>3 DEF Touches, IsObject, AllFull
  <2> HIDE DEF ready
  <2> QED BY <1>5, <2>1, <2>2, <2>3
<1> QED BY <1>4, <1>6, <1>7, <1>8

-----------------------------------------------------------------------------
(* What a step of the worker posts. *)

AllDone(job) == \A c \in DOMAIN job.chains : job.chains[c].at = "done"
Results(job) == [c \in DOMAIN job.chains |-> job.chains[c].got]
IsReply(message, t, job) ==
  /\ IsAnswer(message) /\ message.id = job.id /\ message.of = t
  /\ message.is = "resolved" => AllDone(job) /\ message.got = Results(job)

SameButAnswered(job, done) ==
  job.id = done.id /\ job.page = done.page /\ job.started = done.started /\ job.chains = done.chains

Posted(t, done) ==
  \E job \in JobType :
    /\ jobs' = [jobs EXCEPT ![t] = job] /\ SameButAnswered(job, done)
    /\ done.answered => job.answered
    /\ toPage' \in Seq(MessageType) /\ Len(toPage') >= Len(toPage)
    /\ \A i \in DOMAIN toPage : toPage'[i] = toPage[i]
    /\ \A i \in DOMAIN toPage' \ DOMAIN toPage :
         toPage'[i].is = "progress" \/ (i = Len(toPage') /\ job.answered /\ ~done.answered)
    /\ job.answered /\ ~done.answered =>
         Len(toPage') \notin DOMAIN toPage /\ Len(toPage') \in DOMAIN toPage' /\ IsReply(toPage'[Len(toPage')], t, done)

\* The messages of progress are messages.
LEMMA MessagesType ==
  ASSUME NEW t \in Tasks, NEW told \in Seq(Nat)
  PROVE  LET says == [i \in DOMAIN told |-> Message("progress", NoId, t, told[i])] IN
         says \in Seq(MessageType) /\ DOMAIN says = 1 .. Len(says) /\ Len(says) \in Nat
         /\ \A i \in DOMAIN says : says[i].is = "progress"
<1> DEFINE says == [i \in DOMAIN told |-> Message("progress", NoId, t, told[i])]
<1>1. DOMAIN told = 1 .. Len(told) /\ Len(told) \in Nat
  OBVIOUS
<1>2. \A i \in DOMAIN told : says[i] \in MessageType /\ says[i].is = "progress"
  <2> TAKE i \in DOMAIN told
  <2>1. told[i] \in GivenType
    BY DEF GivenType
  <2> QED BY <2>1 DEF Message, MessageType, Taskless, NoId
<1>3. says \in Seq(MessageType) /\ DOMAIN says = DOMAIN told /\ Len(says) = Len(told)
  BY <1>1, <1>2
<1> QED BY <1>1, <1>2, <1>3

\* What three sequences in a row are.
LEMMA Concatenated ==
  ASSUME NEW S, NEW p \in Seq(S), NEW q \in Seq(S), NEW r \in Seq(S)
  PROVE  /\ p \o q \o r \in Seq(S) /\ Len(p \o q \o r) = Len(p) + Len(q) + Len(r)
         /\ \A i \in 1 .. Len(p) : (p \o q \o r)[i] = p[i]
         /\ \A i \in 1 .. Len(q) : (p \o q \o r)[i + Len(p)] = q[i]
         /\ \A i \in 1 .. Len(r) : (p \o q \o r)[i + Len(p) + Len(q)] = r[i]
OBVIOUS

\* Post appends progress and, at the end of the command only, one answer.
LEMMA PostFacts ==
  ASSUME ControlOK, JobsOK, NEW t \in Tasks, NEW done \in JobType, NEW told \in Seq(Nat),
         Post(t, done, told)
  PROVE  Posted(t, done)
<1> DEFINE failed == \E c \in DOMAIN done.chains : done.chains[c].at = "failed"
           ended == AllDone(done)
           total == Len(Directory) + 3
           more == IF ended /\ done.page = 0 THEN <<total - 2, total - 1, total>> ELSE << >>
           all == told \o more
           says == [i \in DOMAIN all |-> Message("progress", NoId, t, all[i])]
           got == Results(done)
           answers == ~done.answered /\ (failed \/ ended)
           reply == Message(IF failed THEN "failed" ELSE "resolved", done.id, t, IF failed THEN << >> ELSE got)
           last == IF answers THEN <<reply>> ELSE << >>
           job == [done EXCEPT !.answered = @ \/ answers]
<1>1. jobs' = [jobs EXCEPT ![t] = job] /\ toPage' = toPage \o says \o last
  BY ZenonT(40) DEF Post, AllDone, Results
<1>2. /\ job \in JobType /\ SameButAnswered(job, done) /\ (job.answered <=> done.answered \/ answers)
  BY DEF JobType, SameButAnswered
<1>3. all \in Seq(Nat)
  <2>1. Len(Directory) \in Nat
    BY WorkerAssumption
  <2>2. more \in Seq(Nat)
    BY <2>1
  <2> HIDE DEF more
  <2> QED BY <2>2
<1> HIDE DEF all
<1>4. says \in Seq(MessageType) /\ Len(says) \in Nat /\ DOMAIN says = 1 .. Len(says)
      /\ \A i \in DOMAIN says : says[i].is = "progress"
  BY <1>3, MessagesType
<1>5. reply \in MessageType /\ (answers => IsReply(reply, t, done))
  <2>1. got \in Seq(Given) /\ done.id \in Nat
    <3>1. done.chains \in Seq(ChainType) /\ done.id \in Nat
      BY DEF JobType
    <3> DEFINE chains == done.chains
    <3>2. DOMAIN chains = 1 .. Len(chains) /\ Len(chains) \in Nat /\ \A c \in DOMAIN chains : chains[c] \in ChainType
      BY <3>1
    <3>3. got = [c \in DOMAIN chains |-> chains[c].got]
      BY DEF Results
    <3> HIDE DEF chains, got
    <3>4. \A c \in DOMAIN chains : chains[c].got \in Given
      BY <3>2 DEF ChainType
    <3>5. got \in Seq(Given)
      BY <3>2, <3>3, <3>4
    <3> QED BY <3>1, <3>5
  <2>2. got \in GivenType /\ << >> \in GivenType
    BY <2>1 DEF GivenType
  <2> HIDE DEF got
  <2>3. reply \in MessageType
    BY <2>1, <2>2 DEF Message, MessageType, Taskless
  <2>4. answers => IsReply(reply, t, done)
    BY DEF Message, IsReply, IsAnswer, got
  <2> QED BY <2>3, <2>4
<1> HIDE DEF says, reply, answers, job
<1>6. last \in Seq(MessageType) /\ (answers => Len(last) = 1 /\ last[1] = reply) /\ (~answers => Len(last) = 0)
  BY <1>5
<1> HIDE DEF last
<1>7. toPage \in Seq(MessageType)
  BY DEF ControlOK
<1> DEFINE all2 == toPage \o says \o last
           n == Len(toPage)
           m == Len(says)
           k == Len(last)
<1>8. /\ all2 \in Seq(MessageType) /\ Len(all2) = n + m + k
      /\ \A i \in 1 .. n : all2[i] = toPage[i]
      /\ \A i \in 1 .. m : all2[i + n] = says[i]
      /\ \A i \in 1 .. k : all2[i + n + m] = last[i]
  <2>1. toPage \in Seq(MessageType) /\ says \in Seq(MessageType) /\ last \in Seq(MessageType)
    BY <1>4, <1>6, <1>7
  <2> QED BY <2>1, Concatenated, SMTT(30)
<1>9. /\ n \in Nat /\ m \in Nat /\ k \in Nat /\ DOMAIN all2 = 1 .. Len(all2) /\ DOMAIN toPage = 1 .. n
  BY <1>4, <1>6, <1>7, <1>8
<1> HIDE DEF all2, n, m, k
<1>10. (answers => k = 1 /\ all2[n + m + 1] = reply) /\ (~answers => k = 0)
  BY <1>6, <1>8, <1>9 DEF k
<1>11. \A i \in DOMAIN all2 \ DOMAIN toPage : all2[i].is = "progress" \/ (i = Len(all2) /\ answers)
  <2> TAKE i \in DOMAIN all2 \ DOMAIN toPage
  <2>1. CASE i <= n + m
    <3> DEFINE x == i - n
    <3>1. x \in 1 .. m /\ x + n = i
      BY <1>8, <1>9, <2>1
    <3> HIDE DEF x
    <3>2. all2[i] = says[x] /\ x \in DOMAIN says
      BY <1>4, <1>8, <3>1 DEF m
    <3> QED BY <1>4, <3>2
  <2>2. CASE i > n + m
    BY <1>8, <1>9, <1>10, <2>2
  <2> QED BY <1>8, <1>9, <2>1, <2>2
<1>12. Len(all2) >= Len(toPage) /\ (answers => Len(all2) \notin DOMAIN toPage /\ Len(all2) \in DOMAIN all2 /\ all2[Len(all2)] = reply)
  <2> DEFINE len == Len(all2)
  <2>1. k \in Nat /\ n = Len(toPage) /\ len = n + m + k /\ DOMAIN all2 = 1 .. len
    BY <1>6, <1>8, <1>9 DEF k, n
  <2>2. len \in Nat /\ len >= n
    BY <1>9, <2>1
  <2> HIDE DEF len
  <2>3. ASSUME answers PROVE len \notin 1 .. n /\ len \in 1 .. len /\ all2[len] = reply
    <3>1. len = n + m + 1
      BY <1>9, <1>10, <2>1, <2>3
    <3> QED BY <1>9, <1>10, <2>2, <2>3, <3>1
  <2> QED BY <1>9, <2>1, <2>2, <2>3 DEF len
<1>13. toPage' = all2
  BY <1>1 DEF all2
<1>14. answers => ~done.answered
  BY DEF answers
<1> QED
  <2>1. /\ toPage' \in Seq(MessageType) /\ Len(toPage') >= Len(toPage)
        /\ \A i \in DOMAIN toPage : toPage'[i] = toPage[i]
    BY <1>8, <1>9, <1>12, <1>13
  <2>2. \A i \in DOMAIN toPage' \ DOMAIN toPage :
         toPage'[i].is = "progress" \/ (i = Len(toPage') /\ job.answered /\ ~done.answered)
    BY <1>2, <1>11, <1>13, <1>14
  <2>3. job.answered /\ ~done.answered =>
         Len(toPage') \notin DOMAIN toPage /\ Len(toPage') \in DOMAIN toPage' /\ IsReply(toPage'[Len(toPage')], t, done)
    BY <1>2, <1>5, <1>12, <1>13
  <2> QED BY <1>1, <1>2, <2>1, <2>2, <2>3 DEF Posted

-----------------------------------------------------------------------------
(* What a step of the worker does to the page objects. *)

\* The document d goes on to e while page n is got, for which the object o may be made.
Grows(d, e, n, o) ==
  /\ DocOK(e) /\ e.kind = d.kind
  /\ DOMAIN d.objs \subseteq DOMAIN e.objs /\ DOMAIN e.objs \subseteq DOMAIN d.objs \union {o}
  /\ \A x \in DOMAIN d.objs : e.objs[x].page = d.objs[x].page
  /\ IsObject(e, o) /\ ~IsObject(d, o) => e.objs[o].page = n
  /\ d.kind = "indirect" /\ Listed(d) => Listed(e)
  /\ \A m \in PageNumbers :
       \/ e.pages[m] = Absent \/ e.pages[m] = d.pages[m]
       \/ m = n /\ IsObject(e, e.pages[m]) /\ e.objs[e.pages[m]].page = n

\* Growing and then getting a page is growing;
LEMMA GetsGrows ==
  ASSUME NEW d, NEW f, NEW e, NEW n, NEW o, NEW x,
         Grows(d, f, n, o), Gets(f, e, n, x), IsObject(f, x), f.objs[x].page = n
  PROVE  Grows(d, e, n, o)
<1>1. /\ DocOK(e) /\ e.kind = d.kind /\ (d.kind = "indirect" /\ Listed(d) => Listed(e))
      /\ DOMAIN e.objs = DOMAIN f.objs /\ \A y \in DOMAIN f.objs : e.objs[y].page = f.objs[y].page
  BY DEF Grows, Gets
<1>2. ASSUME NEW m \in PageNumbers
      PROVE  \/ e.pages[m] = Absent \/ e.pages[m] = d.pages[m]
             \/ m = n /\ IsObject(e, e.pages[m]) /\ e.objs[e.pages[m]].page = n
  BY <1>1, <1>2 DEF Grows, Gets, IsObject
<1> QED BY <1>1, <1>2 DEF Grows, IsObject

\* so is a touch,
LEMMA TouchesGrows ==
  ASSUME NEW d, NEW e, NEW n, NEW o, DocOK(d), Touches(d, e)
  PROVE  Grows(d, e, n, o) /\ Slack(e) = Slack(d)
BY DEF Grows, Touches, SameFiles, Renewed, Listed, Slack, IsObject

\* the arrival of a page
LEMMA TakePageGrows ==
  ASSUME NEW d, DocOK(d), NEW n \in PageNumbers, NEW o \in ObjectId, o # Absent,
         IsObject(d, o) => d.objs[o].page = n
  PROVE  LET e == TakePage(d, n, o) IN
         /\ Grows(d, e, n, o) /\ Slack(e) = Slack(d) + 1
         /\ IsObject(e, o) /\ e.objs[o].page = n
         /\ AllFull(d) => AllFull(e)
<1> DEFINE e == TakePage(d, n, o)
           more == [d EXCEPT !.usage = @ + 1]
<1>1. /\ DocOK(e) /\ e.usage = d.usage + 1 /\ SameFiles(more, e)
      /\ e.last = d.last
      /\ DOMAIN e.objs = DOMAIN d.objs \union {o} /\ e.objs[o] = Raw(n)
      /\ \A x \in DOMAIN d.objs : x # o => e.objs[x] = d.objs[x]
  BY TakePageFacts
<1>2. more.kind = d.kind /\ more.loaded = d.loaded /\ more.djvi = d.djvi /\ more.pages = d.pages
  BY DocFields DEF DocType
<1>3. e.kind = d.kind /\ e.loaded = d.loaded /\ e.djvi = d.djvi /\ e.pages = d.pages
  BY <1>1, <1>2 DEF SameFiles
<1>4. Raw(n).page = n /\ ~Raw(n).info
  BY RawFacts
<1> HIDE DEF e
<1>5. Slack(e) = Slack(d) + 1
  <2> DEFINE k == Len(d.loaded)
             j == Cardinality(d.djvi)
             u == e.usage
  <2>1. Slack(e) = u - k - j /\ Slack(d) = d.usage - k - j
    BY <1>3 DEF Slack
  <2>2. k \in Nat /\ j \in Nat /\ d.usage \in Int /\ u = d.usage + 1
    BY <1>1, DocFields
  <2> HIDE DEF k, j, u
  <2> QED BY <2>1, <2>2
<1>6. Grows(d, e, n, o)
  BY <1>1, <1>3, <1>4 DEF Grows, IsObject, Listed
<1>7. AllFull(d) => AllFull(e)
  BY <1>1, <1>4 DEF AllFull, Full
<1> QED BY <1>1, <1>4, <1>5, <1>6, <1>7 DEF e, IsObject

\* and that of a shared file.
LEMMA TakePartGrows ==
  ASSUME NEW d, DocOK(d), NEW id \in Shared, NEW n, NEW o
  PROVE  LET e == TakePart(d, id) IN
         Grows(d, e, n, o) /\ Slack(e) >= Slack(d) /\ e.objs = d.objs
<1> DEFINE e == TakePart(d, id)
<1>1. /\ DocOK(e) /\ e.objs = d.objs /\ e.last = d.last
      /\ e.usage = d.usage + 1 /\ e.djvi = d.djvi \union {id}
      /\ e.kind = d.kind /\ e.limit = d.limit /\ e.loaded = d.loaded /\ e.pages = d.pages
  BY TakePartFacts
<1> HIDE DEF e
<1>2. Cardinality(e.djvi) <= Cardinality(d.djvi) + 1 /\ Cardinality(e.djvi) \in Nat
  <2>1. IsFiniteSet(d.djvi) /\ d.djvi \in SUBSET Shared
    BY DocFields, SharedFinite
  <2>2. Cardinality(d.djvi \union {id}) = IF id \in d.djvi THEN Cardinality(d.djvi) ELSE Cardinality(d.djvi) + 1
    BY <2>1, FS_AddElement
  <2> QED BY <1>1, <2>2, DocFields
<1>3. Slack(e) >= Slack(d)
  <2> DEFINE k == Len(d.loaded)
             j == Cardinality(d.djvi)
             i == Cardinality(e.djvi)
             u == e.usage
  <2>1. Slack(e) = u - k - i /\ Slack(d) = d.usage - k - j
    BY <1>1 DEF Slack
  <2>2. k \in Nat /\ j \in Nat /\ d.usage \in Int /\ i \in Nat /\ i <= j + 1 /\ u = d.usage + 1
    BY <1>1, <1>2, DocFields
  <2> HIDE DEF k, j, i, u
  <2> QED BY <2>1, <2>2
<1> QED BY <1>1, <1>3 DEF Grows, IsObject, Listed, e

-----------------------------------------------------------------------------
(* The page objects are those of their commands. *)

ChainOK(page, chain) ==
  /\ page # 0 => /\ chain.at \in {"page", "parts", "blob", "done", "failed"}
                 /\ chain.waits # {} => chain.at \in {"parts", "failed"}
  /\ page = 0 => chain.at \in {"idle", "load", "done", "failed"} /\ chain.waits = {}

Chains(t) == DOMAIN jobs[t].chains
HeldOwn ==
  \A t \in Tasks : \A c \in Chains(t) :
    /\ ChainOK(jobs[t].page, jobs[t].chains[c])
    /\ Holds(jobs[t].chains[c]) => IsObject(doc, jobs[t].chains[c].obj)
                                   /\ doc.objs[jobs[t].chains[c].obj].page = jobs[t].page
MadeOwn ==
  \A o \in DOMAIN doc.objs : o[1] # 0 => \E t \in Tasks : jobs[t].id = o[1] /\ jobs[t].page = doc.objs[o].page
KeptOwn ==
  \A n \in PageNumbers : doc.pages[n] # Absent =>
    IsObject(doc, doc.pages[n]) /\ doc.objs[doc.pages[n]].page = n
PagesOwn == HeldOwn /\ MadeOwn /\ KeptOwn

Counts(chain) == IF chain.at = "parts" THEN 1 ELSE 0

\* A chain of a page goes on: the step of PageArrives, PartArrives, BlobMade and LoadFails.
PageStep(t, c) ==
  \E end \in ChainType :
    /\ Posted(t, SetChain(t, c, end))
    /\ jobs[t].page # 0 /\ (jobs[t].chains[c].at = "failed" => end.at = "failed")
    /\ ChainOK(jobs[t].page, end) /\ end.at # "page"
    /\ Grows(doc, doc', jobs[t].page, <<jobs[t].id, c>>)
    /\ Holds(end) => IsObject(doc', end.obj) /\ doc'.objs[end.obj].page = jobs[t].page
    /\ doc.kind = "indirect" => Slack(doc') - Counts(end) >= Slack(doc) - Counts(jobs[t].chains[c])
    /\ AllFull(doc) /\ end.at # "failed" =>
         /\ AllFull(doc')
         /\ end.at \in {"blob", "done"} =>
              \/ end.got = <<jobs[t].page, Parts(jobs[t].page)>>
              \/ jobs[t].chains[c].at = "blob" /\ end.got = jobs[t].chains[c].got

\* The types of a chain in the worker,
LEMMA ChainFacts ==
  ASSUME JobsOK, NEW t \in Tasks, NEW c \in Chains(t)
  PROVE  /\ jobs[t] \in JobType /\ jobs[t].chains \in Seq(ChainType) /\ jobs[t].chains[c] \in ChainType
         /\ jobs[t].id \in Nat /\ jobs[t].page \in {0} \union PageNumbers /\ c \in Nat
         /\ Chains(t) = 1 .. Len(jobs[t].chains) /\ Len(jobs[t].chains) \in Nat
<1>1. jobs[t] \in JobType
  BY DEF JobsOK
<1>2. jobs[t].chains \in Seq(ChainType) /\ jobs[t].id \in Nat /\ jobs[t].page \in {0} \union PageNumbers
  BY <1>1 DEF JobType
<1> DEFINE chains == jobs[t].chains
<1> HIDE DEF chains
<1>3. c \in DOMAIN chains /\ chains \in Seq(ChainType)
  BY <1>2 DEF chains, Chains
<1>4. chains[c] \in ChainType /\ c \in Nat /\ DOMAIN chains = 1 .. Len(chains) /\ Len(chains) \in Nat
  BY <1>3
<1> QED BY <1>1, <1>2, <1>4 DEF chains, Chains

\* and of its command with the chain replaced.
LEMMA SetChainFacts ==
  ASSUME JobsOK, NEW t \in Tasks, NEW c \in Chains(t), NEW chain \in ChainType
  PROVE  LET job == SetChain(t, c, chain) IN
         /\ job \in JobType /\ job.id = jobs[t].id /\ job.page = jobs[t].page
         /\ job.answered = jobs[t].answered /\ job.started = jobs[t].started
         /\ DOMAIN job.chains = Chains(t) /\ job.chains[c] = chain
         /\ \A e \in Chains(t) : e # c => job.chains[e] = jobs[t].chains[e]
<1> DEFINE chains == jobs[t].chains
           new == [chains EXCEPT ![c] = chain]
<1>1. jobs[t] \in JobType /\ chains \in Seq(ChainType) /\ c \in DOMAIN chains
  BY ChainFacts DEF Chains
<1> HIDE DEF chains
<1>2. /\ new \in Seq(ChainType) /\ DOMAIN new = DOMAIN chains /\ new[c] = chain
      /\ \A e \in DOMAIN chains : e # c => new[e] = chains[e]
  BY <1>1
<1>3. SetChain(t, c, chain) = [jobs[t] EXCEPT !.chains = new]
  BY DEF SetChain, chains
<1> HIDE DEF new
<1> DEFINE job == [jobs[t] EXCEPT !.chains = new]
<1>4. /\ job \in JobType /\ job.id = jobs[t].id /\ job.page = jobs[t].page
      /\ job.answered = jobs[t].answered /\ job.started = jobs[t].started /\ job.chains = new
  BY <1>1, <1>2 DEF JobType
<1> HIDE DEF job
<1> QED BY <1>2, <1>3, <1>4 DEF job, Chains, chains

\* A chain replaced is posted.
LEMMA PostChain ==
  ASSUME ControlOK, JobsOK, NEW t \in Tasks, NEW c \in Chains(t), NEW chain \in ChainType,
         Post(t, SetChain(t, c, chain), << >>)
  PROVE  Posted(t, SetChain(t, c, chain))
<1>1. SetChain(t, c, chain) \in JobType
  BY SetChainFacts
<1>2. << >> \in Seq(Nat)
  OBVIOUS
<1> QED BY <1>1, <1>2, PostFacts

\* The object a chain makes for its page is new, or of that page.
LEMMA OwnObject ==
  ASSUME JobsOK, MadeOwn, JobsOwn(client), NEW t \in Tasks, NEW c \in Chains(t)
  PROVE  LET o == <<jobs[t].id, c>> IN
         /\ o \in ObjectId /\ o # Absent /\ o[1] = jobs[t].id /\ o[1] # 0
         /\ IsObject(doc, o) => doc.objs[o].page = jobs[t].page
<1>1. jobs[t].id \in Nat /\ c \in Nat
  BY ChainFacts
<1>2. jobs[t].id # 0
  <2>1. ASSUME jobs[t] = NoJob PROVE FALSE
    BY <2>1 DEF Chains, NoJob
  <2> QED BY <2>1 DEF JobsOwn, NoId
<1>3. ASSUME IsObject(doc, <<jobs[t].id, c>>) PROVE doc.objs[<<jobs[t].id, c>>].page = jobs[t].page
  <2>1. PICK u \in Tasks : jobs[u].id = jobs[t].id /\ jobs[u].page = doc.objs[<<jobs[t].id, c>>].page
    BY <1>2, <1>3 DEF MadeOwn, IsObject
  <2>2. u = t
    BY <1>2, <2>1 DEF JobsOwn, NoId
  <2> QED BY <2>1, <2>2
<1> QED BY <1>1, <1>2, <1>3 DEF ObjectId, Absent

\* From the document once all files are there to the end of the chain's step.
LEMMA GotStep ==
  ASSUME ControlOK, JobsOK, DocOK(doc), NEW t \in Tasks, NEW c \in Chains(t), NEW d, NEW chain \in ChainType,
         jobs[t].page \in PageNumbers, jobs[t].chains[c].at # "failed",
         DocOK(d), Grows(doc, d, jobs[t].page, <<jobs[t].id, c>>), AllFull(doc) => AllFull(d),
         Slack(d) >= Slack(doc) + 1 - Counts(jobs[t].chains[c]),
         IsObject(d, chain.obj), d.objs[chain.obj].page = jobs[t].page, chain.waits = {},
         GotPage(t, c, d, chain)
  PROVE  PageStep(t, c)
<1> DEFINE n == jobs[t].page
           o == <<jobs[t].id, c>>
           Good(end) == end.got = <<n, Parts(n)>>
<1>1. PICK end : /\ Ends(chain, chain.obj, end)
                 /\ Post(t, SetChain(t, c, end), << >>)
                 /\ Gets(d, doc', n, chain.obj)
                 /\ AllFull(d) /\ end.at # "failed" => AllFull(doc') /\ Good(end)
  BY GotFacts, ZenonT(40)
<1>2. end \in ChainType /\ end.at \in {"failed", "blob", "done"} /\ end.waits = {} /\ (Holds(end) => end.obj = chain.obj)
  BY <1>1 DEF Ends
<1>3. Posted(t, SetChain(t, c, end))
  BY <1>1, <1>2, PostChain
<1>4. ChainOK(n, end) /\ end.at # "page" /\ Counts(end) = 0 /\ n # 0
  <2>1. n # 0
    BY NeedsFacts
  <2> QED BY <1>2, <2>1 DEF ChainOK, Counts
<1>5. Grows(doc, doc', n, o)
  BY <1>1, GetsGrows
<1>6. IsObject(doc', chain.obj) /\ doc'.objs[chain.obj].page = n
  BY <1>1 DEF Gets, IsObject
<1>7. doc.kind = "indirect" => Slack(doc') - Counts(end) >= Slack(doc) - Counts(jobs[t].chains[c])
  <2> SUFFICES ASSUME doc.kind = "indirect" PROVE Slack(doc') >= Slack(doc) - Counts(jobs[t].chains[c])
    <3>1. Slack(doc') \in Int
      BY <1>1, SlackType DEF Gets
    <3> QED BY <1>4, <3>1
  <2>1. Slack(doc') >= Slack(d) - 1
    BY <1>1 DEF Gets, Grows
  <2>2. Slack(doc') \in Int /\ Slack(d) \in Int /\ Slack(doc) \in Int
    BY <1>1, SlackType DEF Gets
  <2>3. Counts(jobs[t].chains[c]) \in {0, 1}
    BY DEF Counts
  <2> QED BY <2>1, <2>2, <2>3
<1>8. AllFull(doc) /\ end.at # "failed" => AllFull(doc') /\ Good(end)
  BY <1>1
<1> QED BY <1>2, <1>3, <1>4, <1>5, <1>6, <1>7, <1>8 DEF PageStep

\* A chain that still waits, or has failed, with the document d.
LEMMA WaitStep ==
  ASSUME ControlOK, JobsOK, NEW t \in Tasks, NEW c \in Chains(t), NEW end \in ChainType,
         jobs[t].page \in PageNumbers, DocOK(doc'),
         Grows(doc, doc', jobs[t].page, <<jobs[t].id, c>>), AllFull(doc) => AllFull(doc'),
         Slack(doc') - Counts(end) >= Slack(doc) - Counts(jobs[t].chains[c]),
         end.at \in {"parts", "failed"}, jobs[t].chains[c].at = "failed" => end.at = "failed",
         Holds(end) => IsObject(doc', end.obj) /\ doc'.objs[end.obj].page = jobs[t].page,
         Post(t, SetChain(t, c, end), << >>)
  PROVE  PageStep(t, c)
<1>1. Posted(t, SetChain(t, c, end))
  BY PostChain
<1>2. jobs[t].page # 0
  BY NeedsFacts
<1>3. ChainOK(jobs[t].page, end)
  BY <1>2 DEF ChainOK
<1> QED BY <1>1, <1>2, <1>3 DEF PageStep

\* A page that arrives is a step of its chain,
LEMMA PageArrivesFacts ==
  ASSUME TypeInv, PagesOwn, JobsOwn(client), NEW t \in Tasks, NEW c \in Chains(t), PageArrives(t, c)
  PROVE  PageStep(t, c)
<1> DEFINE chain == jobs[t].chains[c]
           n == jobs[t].page
           o == <<jobs[t].id, c>>
           taken == TakePage(doc, n, o)
           missing == Parts(n) \ doc.djvi
           goes == [chain EXCEPT !.at = "parts", !.waits = missing, !.obj = o]
<1>1. ControlOK /\ JobsOK /\ DocOK(doc) /\ MadeOwn
  BY DEF TypeInv, ObjectsOK, PagesOwn
<1>2. chain \in ChainType /\ chain.at = "page" /\ n \in {0} \union PageNumbers
  BY <1>1, ChainFacts DEF PageArrives
<1>3. n \in PageNumbers
  <2>1. ChainOK(n, chain)
    BY DEF PagesOwn, HeldOwn
  <2> QED BY <1>2, <2>1 DEF ChainOK
<1>4. o \in ObjectId /\ o # Absent /\ (IsObject(doc, o) => doc.objs[o].page = n)
  BY <1>1, OwnObject
<1>5. /\ Grows(doc, taken, n, o) /\ Slack(taken) = Slack(doc) + 1
      /\ IsObject(taken, o) /\ taken.objs[o].page = n
      /\ AllFull(doc) => AllFull(taken)
  BY <1>1, <1>3, <1>4, TakePageGrows, SMTT(30)
<1>6. DocOK(taken)
  BY <1>5 DEF Grows
<1>7. missing \in SUBSET Shared
  BY <1>3, NeedsFacts
<1>8. goes \in ChainType /\ goes.at = "parts" /\ goes.waits = missing /\ goes.obj = o
  <2> HIDE DEF chain, missing, o
  <2> QED BY <1>2, <1>4, <1>7 DEF ChainType, Stages
<1>9. Counts(chain) = 0 /\ Counts(goes) = 1
  BY <1>2, <1>8 DEF Counts
<1>10. Slack(taken) \in Int /\ Slack(doc) \in Int
  BY <1>1, <1>6, SlackType
<1> HIDE DEF goes, taken
<1>11. CASE missing = {} /\ GotPage(t, c, taken, goes)
  <2>1. Slack(taken) >= Slack(doc) + 1 - Counts(chain)
    BY <1>5, <1>9, <1>10
  <2> QED BY <1>1, <1>2, <1>3, <1>5, <1>6, <1>8, <1>11, <2>1, GotStep
<1>12. CASE doc' = taken /\ Post(t, SetChain(t, c, goes), << >>)
  <2>1. Slack(doc') - Counts(goes) >= Slack(doc) - Counts(chain)
    BY <1>5, <1>9, <1>10, <1>12
  <2> QED BY <1>1, <1>2, <1>3, <1>5, <1>6, <1>8, <1>12, <2>1, WaitStep
<1> QED BY <1>11, <1>12 DEF PageArrives, goes, taken

\* a shared file that arrives is,
LEMMA PartArrivesFacts ==
  ASSUME TypeInv, PagesOwn, NEW t \in Tasks, NEW c \in Chains(t), NEW id \in Shared, PartArrives(t, c, id)
  PROVE  PageStep(t, c)
<1> DEFINE was == jobs[t].chains[c]
           left == was.waits \ {id}
           chain == [was EXCEPT !.waits = @ \ {id}]
           n == jobs[t].page
           o == <<jobs[t].id, c>>
           taken == TakePart(doc, id)
<1>1. ControlOK /\ JobsOK /\ DocOK(doc)
  BY DEF TypeInv, ObjectsOK
<1>2. was \in ChainType /\ n \in {0} \union PageNumbers /\ was.waits # {}
  BY <1>1, ChainFacts DEF PartArrives
<1>3. ChainOK(n, was) /\ (Holds(was) => IsObject(doc, was.obj) /\ doc.objs[was.obj].page = n)
  BY DEF PagesOwn, HeldOwn
<1>4. n \in PageNumbers /\ was.at \in {"parts", "failed"}
  BY <1>2, <1>3, NeedsFacts DEF ChainOK
<1>5. Grows(doc, taken, n, o) /\ Slack(taken) >= Slack(doc) /\ taken.objs = doc.objs
  BY <1>1, TakePartGrows
<1>6. DocOK(taken) /\ (AllFull(doc) => AllFull(taken))
  BY <1>5 DEF Grows, AllFull
<1>7. chain \in ChainType /\ chain.at = was.at /\ chain.waits = left /\ chain.obj = was.obj
  <2> HIDE DEF was
  <2> QED BY <1>2 DEF ChainType
<1>8. Counts(chain) = Counts(was) /\ (Holds(chain) <=> Holds(was)) /\ Counts(was) \in {0, 1}
  BY <1>7 DEF Counts, Holds
<1>9. Slack(taken) \in Int /\ Slack(doc) \in Int
  BY <1>1, <1>6, SlackType
<1> HIDE DEF chain, taken
<1>10. CASE chain.waits = {} /\ chain.at = "parts" /\ GotPage(t, c, taken, chain)
  <2>1. Counts(was) = 1 /\ Holds(was)
    BY <1>7, <1>10 DEF Counts, Holds
  <2>2. Slack(taken) >= Slack(doc) + 1 - Counts(was)
    BY <1>5, <1>9, <2>1
  <2>3. IsObject(taken, chain.obj) /\ taken.objs[chain.obj].page = n
    BY <1>3, <1>5, <1>7, <2>1 DEF IsObject
  <2> QED BY <1>1, <1>4, <1>5, <1>6, <1>7, <1>10, <2>2, <2>3, GotStep
<1>11. CASE doc' = taken /\ Post(t, SetChain(t, c, chain), << >>)
  <2>1. Slack(doc') - Counts(chain) >= Slack(doc) - Counts(was)
    BY <1>5, <1>8, <1>9, <1>11
  <2>2. Holds(chain) => IsObject(doc', chain.obj) /\ doc'.objs[chain.obj].page = n
    BY <1>3, <1>5, <1>7, <1>8, <1>11 DEF IsObject
  <2> QED BY <1>1, <1>4, <1>5, <1>6, <1>7, <1>11, <2>1, <2>2, WaitStep
<1> QED BY <1>10, <1>11 DEF PartArrives, chain, taken

\* and an image that is encoded is.
LEMMA BlobMadeFacts ==
  ASSUME TypeInv, PagesOwn, NEW t \in Tasks, NEW c \in Chains(t), BlobMade(t, c)
  PROVE  PageStep(t, c)
<1> DEFINE chain == jobs[t].chains[c]
           n == jobs[t].page
           o == <<jobs[t].id, c>>
           at == IF InitThrows(doc, chain.obj) THEN "failed" ELSE "done"
           end == [chain EXCEPT !.at = at]
<1>1. ControlOK /\ JobsOK /\ DocOK(doc)
  BY DEF TypeInv, ObjectsOK
<1>2. chain \in ChainType /\ n \in {0} \union PageNumbers /\ chain.at = "blob"
  BY <1>1, ChainFacts DEF BlobMade
<1>3. ChainOK(n, chain) /\ IsObject(doc, chain.obj) /\ doc.objs[chain.obj].page = n
  BY <1>2 DEF PagesOwn, HeldOwn, Holds
<1>4. chain.waits = {} /\ n \in PageNumbers /\ n # 0
  BY <1>2, <1>3, NeedsFacts DEF ChainOK
<1>5. doc' = InitPage(doc, chain.obj) /\ Post(t, SetChain(t, c, end), << >>)
  BY DEF BlobMade
<1>6. Grows(doc, doc', n, o) /\ Slack(doc') = Slack(doc) /\ DocOK(doc')
  <2>1. Touches(doc, doc')
    BY <1>1, <1>3, <1>5, InitFacts
  <2> QED BY <1>1, <2>1, TouchesGrows DEF Touches
<1>7. end \in ChainType /\ end.at = at /\ end.got = chain.got /\ end.waits = {}
  <2> HIDE DEF chain
  <2> QED BY <1>2, <1>4 DEF ChainType, Stages
<1> HIDE DEF end
<1>8. ChainOK(n, end) /\ end.at # "page" /\ ~Holds(end) /\ Counts(end) = 0 /\ Counts(chain) = 0
  BY <1>2, <1>4, <1>7 DEF ChainOK, Holds, Counts
<1>9. Slack(doc') - Counts(end) >= Slack(doc) - Counts(chain)
  <2>1. Slack(doc) \in Int
    BY <1>1, SlackType
  <2> QED BY <1>6, <1>8, <2>1
<1>10. ASSUME AllFull(doc), end.at # "failed" PROVE AllFull(doc')
  <2>1. ~InitThrows(doc, chain.obj)
    BY <1>7, <1>10
  <2> QED BY <1>1, <1>3, <1>5, <1>10, <2>1, InitFull
<1>11. Posted(t, SetChain(t, c, end))
  BY <1>1, <1>5, <1>7, PostChain
<1> QED BY <1>2, <1>4, <1>6, <1>7, <1>8, <1>9, <1>10, <1>11 DEF PageStep

-----------------------------------------------------------------------------
(* The bundling of all files. *)

PagesTo(k) == Cardinality({i \in 1 .. k : IsPageFile(i)})

BundleAt(job, k) ==
  /\ job.started = PagesTo(k)
  /\ \A c \in DOMAIN job.chains :
       /\ c <= k => job.chains[c].got = Directory[c] /\ job.chains[c].at # "idle"
       /\ c > k => job.chains[c].at = "idle"

\* The files are started in the order of the directory, each under its own name.
BundleOK(job) ==
  /\ DOMAIN job.chains = DOMAIN Directory
  /\ \E k \in 0 .. Len(Directory) : BundleAt(job, k)

\* The number of pages among the first files.
LEMMA PagesToType ==
  ASSUME NEW k \in Nat
  PROVE  /\ PagesTo(k) \in Nat
         /\ PagesTo(k + 1) = PagesTo(k) + (IF IsPageFile(k + 1) THEN 1 ELSE 0)
<1> DEFINE S == {i \in 1 .. k : IsPageFile(i)}
           T == {i \in 1 .. (k + 1) : IsPageFile(i)}
<1>1. IsFiniteSet(S) /\ Cardinality(S) \in Nat
  <2>1. IsFiniteSet(1 .. k)
    BY FS_Interval
  <2>2. S \subseteq 1 .. k
    OBVIOUS
  <2>3. IsFiniteSet(S)
    BY <2>1, <2>2, FS_Subset
  <2> QED BY <2>3, FS_CardinalityType
<1>2. k + 1 \notin S
  OBVIOUS
<1>3. T = IF IsPageFile(k + 1) THEN S \union {k + 1} ELSE S
  <2>1. 1 .. (k + 1) = (1 .. k) \union {k + 1}
    OBVIOUS
  <2> QED BY <2>1
<1> HIDE DEF S, T
<1>4. Cardinality(S \union {k + 1}) = Cardinality(S) + 1
  BY <1>1, <1>2, FS_AddElement
<1>5. PagesTo(k) = Cardinality(S) /\ PagesTo(k + 1) = Cardinality(T)
  BY DEF PagesTo, S, T
<1> QED BY <1>1, <1>3, <1>4, <1>5

\* Page n is the n-th of the files that are pages.
LEMMA PagesToPage ==
  ASSUME NEW n \in PageNumbers
  PROVE  PagesTo(Pages[n]) = n
<1> DEFINE f == [m \in 1 .. n |-> Pages[m]]
           T == {i \in 1 .. Pages[n] : IsPageFile(i)}
<1>1. /\ Pages \in [PageNumbers -> DOMAIN Directory]
      /\ \A p, m \in PageNumbers : p < m => Pages[p] < Pages[m]
  BY WorkerAssumption
<1>2. Len(Needs) \in Nat /\ PageNumbers = 1 .. Len(Needs)
  BY DocumentAssumption DEF PageNumbers
<1>3. DOMAIN Directory \subseteq Nat \ {0}
  <2>1. DOMAIN Directory = 1 .. Len(Directory) /\ Len(Directory) \in Nat
    BY WorkerAssumption
  <2> QED BY <2>1
<1>4. n \in Nat /\ \A m \in 1 .. n : m \in PageNumbers /\ Pages[m] \in Nat \ {0}
  BY <1>1, <1>2, <1>3
<1>5. \A m \in PageNumbers : m \in Nat /\ Pages[m] \in Nat \ {0}
  BY <1>1, <1>2, <1>3
<1>6. f \in [1 .. n -> T]
  <2> SUFFICES ASSUME NEW m \in 1 .. n PROVE Pages[m] \in T
    OBVIOUS
  <2>1. IsPageFile(Pages[m])
    BY <1>4 DEF IsPageFile
  <2>2. Pages[m] <= Pages[n]
    <3>1. m = n \/ m < n
      BY <1>4
    <3> QED BY <1>1, <1>4, <1>5, <3>1
  <2> QED BY <1>4, <1>5, <2>1, <2>2
<1>7. \A p, m \in 1 .. n : f[p] = f[m] => p = m
  <2> TAKE p, m \in 1 .. n
  <2>1. p \in Nat /\ m \in Nat /\ p \in PageNumbers /\ m \in PageNumbers
    BY <1>4, <1>5
  <2>2. p < m \/ m < p \/ p = m
    BY <2>1
  <2> QED BY <1>1, <1>4, <2>1, <2>2
<1>8. \A i \in T : \E m \in 1 .. n : f[m] = i
  <2> TAKE i \in T
  <2>1. PICK m \in PageNumbers : Pages[m] = i
    BY DEF IsPageFile
  <2>2. m <= n
    <3>1. ~(n < m)
      BY <1>1, <1>5, <2>1
    <3> QED BY <1>4, <1>5, <3>1
  <2>3. m \in 1 .. n
    BY <1>2, <1>4, <2>2
  <2> QED BY <2>1, <2>3
<1> HIDE DEF f, T
<1>9. f \in Bijection(1 .. n, T)
  BY <1>6, <1>7, <1>8, Fun_IsBij
<1>10. Cardinality(1 .. n) = n /\ IsFiniteSet(1 .. n)
  BY <1>4, FS_Interval
<1>11. Cardinality(T) = Cardinality(1 .. n)
  BY <1>9, <1>10, FS_Bijection DEF ExistsBijection
<1> QED BY <1>10, <1>11 DEF PagesTo, T

LeastIdle(job, i) ==
  /\ i \in DOMAIN job.chains /\ job.chains[i].at = "idle"
  /\ \A j \in 1 .. (i - 1) : job.chains[j].at # "idle"

\* The next file is started, or nothing is.
Starts(job, next) ==
  /\ next \in JobType /\ next.id = job.id /\ next.page = job.page /\ next.answered = job.answered
  /\ DOMAIN next.chains = DOMAIN job.chains
  /\ \/ next = job
     \/ \E i \in DOMAIN job.chains :
          /\ LeastIdle(job, i)
          /\ next.started = job.started + (IF IsPageFile(i) THEN 1 ELSE 0)
          /\ next.chains[i].at = "load" /\ next.chains[i].waits = job.chains[i].waits
          /\ next.chains[i].got = Directory[IF IsPageFile(i) THEN Pages[next.started] ELSE i]
          /\ \A e \in DOMAIN job.chains : e # i => next.chains[e] = job.chains[e]

\* The types of a command's fields.
LEMMA JobFields ==
  ASSUME NEW job \in JobType
  PROVE  /\ job.chains \in Seq(ChainType) /\ DOMAIN job.chains = 1 .. Len(job.chains) /\ Len(job.chains) \in Nat
         /\ DOMAIN job.chains \subseteq Nat
         /\ \A c \in DOMAIN job.chains : job.chains[c] \in ChainType
         /\ job.id \in Nat /\ job.page \in {0} \union PageNumbers /\ job.answered \in BOOLEAN /\ job.started \in Nat
<1>1. job.chains \in Seq(ChainType)
  BY DEF JobType
<1> DEFINE chains == job.chains
<1> HIDE DEF chains
<1>2. chains \in Seq(ChainType)
  BY <1>1 DEF chains
<1>3. DOMAIN chains = 1 .. Len(chains) /\ Len(chains) \in Nat /\ \A c \in DOMAIN chains : chains[c] \in ChainType
  BY <1>2
<1>4. DOMAIN chains \subseteq Nat
  BY <1>3
<1>5. job.id \in Nat /\ job.page \in {0} \union PageNumbers /\ job.answered \in BOOLEAN /\ job.started \in Nat
  BY DEF JobType
<1> QED BY <1>2, <1>3, <1>4, <1>5 DEF chains

\* The next file of a bundle is the first that is idle.
LEMMA NextFileFacts ==
  ASSUME NEW job \in JobType, \E i \in DOMAIN job.chains : job.chains[i].at = "idle"
  PROVE  LeastIdle(job, NextFile(job))
<1> DEFINE B == {i \in DOMAIN job.chains : job.chains[i].at = "idle"}
<1>1. B \in SUBSET Nat /\ B # {} /\ DOMAIN job.chains = 1 .. Len(job.chains) /\ Len(job.chains) \in Nat
  BY JobFields
<1>2. PICK b \in B : \A x \in B : b <= x
  <2> HIDE DEF B
  <2> QED BY <1>1, LeastNatural
<1>3. LeastIdle(job, b)
  <2> SUFFICES ASSUME NEW j \in 1 .. (b - 1), job.chains[j].at = "idle" PROVE FALSE
    BY DEF LeastIdle
  <2>1. b \in Nat /\ b <= Len(job.chains)
    BY <1>1
  <2>2. j \in DOMAIN job.chains /\ j < b
    BY <1>1, <2>1
  <2>3. j \in B
    BY <2>2
  <2> QED BY <1>1, <1>2, <2>2, <2>3
<1> HIDE DEF B
<1>4. \E i \in DOMAIN job.chains : job.chains[i].at = "idle" /\ \A j \in 1 .. (i - 1) : job.chains[j].at # "idle"
  BY <1>3 DEF LeastIdle
<1> DEFINE P(i) == job.chains[i].at = "idle" /\ \A j \in 1 .. (i - 1) : job.chains[j].at # "idle"
<1>5. NextFile(job) = CHOOSE i \in DOMAIN job.chains : P(i)
  BY DEF NextFile
<1>6. \E i \in DOMAIN job.chains : P(i)
  BY <1>4
<1> HIDE DEF P
<1>7. NextFile(job) \in DOMAIN job.chains /\ P(NextFile(job))
  BY <1>5, <1>6
<1> QED BY <1>7 DEF P, LeastIdle

\* The files of the directory can be given.
LEMMA DirectoryFacts ==
  /\ DOMAIN Directory = 1 .. Len(Directory) /\ Len(Directory) \in Nat
  /\ \A n \in PageNumbers : Pages[n] \in 1 .. Len(Directory)
  /\ \A i \in Nat : Directory[i] \in Given /\ Directory[Pages[i]] \in Given
<1>1. DOMAIN Directory = 1 .. Len(Directory) /\ Len(Directory) \in Nat
  BY WorkerAssumption
<1>2. \A n \in PageNumbers : Pages[n] \in 1 .. Len(Directory)
  BY <1>1, WorkerAssumption
<1>3. \A i \in Nat : Directory[i] \in Given /\ Directory[Pages[i]] \in Given
  BY DEF Given, FileNames
<1> QED BY <1>1, <1>2, <1>3

\* StartFile starts the first idle file or none,
LEMMA StartFileFacts ==
  ASSUME NEW job \in JobType
  PROVE  Starts(job, StartFile(job))
<1>1. CASE StartFile(job) = job
  BY <1>1 DEF Starts
<1>2. CASE StartFile(job) # job
  <2> DEFINE i == NextFile(job)
             s == job.started + (IF IsPageFile(i) THEN 1 ELSE 0)
             g == Directory[IF IsPageFile(i) THEN Pages[s] ELSE i]
             chains == job.chains
             chain == [chains[i] EXCEPT !.at = "load", !.got = g]
             new == [chains EXCEPT ![i] = chain]
             next == [job EXCEPT !.started = s, !.chains = new]
  <2>1. ~(Cardinality(Loading(job)) >= Limit \/ \A e \in DOMAIN job.chains : job.chains[e].at # "idle")
    BY <1>2 DEF StartFile
  <2>2. LeastIdle(job, i)
    BY <2>1, NextFileFacts
  <2>3. /\ chains \in Seq(ChainType) /\ i \in DOMAIN chains /\ i \in Nat /\ chains[i] \in ChainType
        /\ s \in Nat
    BY <2>2, JobFields DEF LeastIdle
  <2>4. g \in Given
    BY <2>3, DirectoryFacts
  <2>5. StartFile(job) = next
    BY <2>1, ZenonT(40) DEF StartFile
  <2>6. s = job.started + (IF IsPageFile(i) THEN 1 ELSE 0) /\ g = Directory[IF IsPageFile(i) THEN Pages[s] ELSE i]
    OBVIOUS
  <2>10. chains = job.chains
    OBVIOUS
  <2> HIDE DEF i, s, g, chains
  <2>7. chain \in ChainType /\ chain.at = "load" /\ chain.got = g /\ chain.waits = chains[i].waits
    <3> DEFINE old == chains[i]
    <3>1. old \in ChainType
      BY <2>3
    <3> HIDE DEF old
    <3>2. [old EXCEPT !.at = "load", !.got = g] \in ChainType
      BY <3>1, <2>4 DEF ChainType, Stages
    <3>3. /\ [old EXCEPT !.at = "load", !.got = g].at = "load" /\ [old EXCEPT !.at = "load", !.got = g].got = g
          /\ [old EXCEPT !.at = "load", !.got = g].waits = old.waits
      BY <3>1 DEF ChainType
    <3> QED BY <3>2, <3>3 DEF old
  <2> HIDE DEF chain
  <2>8. /\ new \in Seq(ChainType) /\ DOMAIN new = DOMAIN chains /\ new[i] = chain
        /\ \A e \in DOMAIN chains : e # i => new[e] = chains[e]
    BY <2>3, <2>7
  <2> HIDE DEF new
  <2>9. /\ next \in JobType /\ next.id = job.id /\ next.page = job.page /\ next.answered = job.answered
        /\ next.started = s /\ next.chains = new
    BY <2>3, <2>8 DEF JobType
  <2> HIDE DEF next
  <2> QED BY <2>2, <2>3, <2>5, <2>6, <2>7, <2>8, <2>9, <2>10 DEF Starts
<1> QED BY <1>1, <1>2

\* so that the files of a bundle stay in the order of the directory;
LEMMA StartBundle ==
  ASSUME NEW job \in JobType, NEW next, Starts(job, next), BundleOK(job)
  PROVE  BundleOK(next)
<1>1. CASE next = job
  BY <1>1
<1>2. ASSUME NEW i \in DOMAIN job.chains,
             LeastIdle(job, i),
             next.started = job.started + (IF IsPageFile(i) THEN 1 ELSE 0),
             next.chains[i].at = "load",
             next.chains[i].got = Directory[IF IsPageFile(i) THEN Pages[next.started] ELSE i],
             \A e \in DOMAIN job.chains : e # i => next.chains[e] = job.chains[e]
      PROVE  BundleOK(next)
  <2>1. PICK k \in 0 .. Len(Directory) : BundleAt(job, k)
    BY DEF BundleOK
  <2> DEFINE len == Len(Directory)
  <2>2. len \in Nat /\ DOMAIN Directory = 1 .. len /\ DOMAIN job.chains = 1 .. len /\ DOMAIN next.chains = 1 .. len
    BY DirectoryFacts DEF BundleOK, Starts
  <2> HIDE DEF len
  <2>3. i = k + 1
    <3>1. ~(i <= k)
      BY <1>2, <2>1 DEF BundleAt, LeastIdle
    <3>2. ~(k + 1 < i)
      <4> SUFFICES ASSUME k + 1 < i PROVE FALSE
        OBVIOUS
      <4>1. k + 1 \in 1 .. (i - 1) /\ k + 1 \in 1 .. len /\ k + 1 > k
        BY <2>1, <2>2
      <4> QED BY <1>2, <2>1, <2>2, <4>1 DEF BundleAt, LeastIdle
    <3>3. i \in Nat /\ k \in Nat
      BY <2>1, <2>2
    <3> QED BY <3>1, <3>2, <3>3
  <2>4. k \in Nat /\ i \in 1 .. len /\ k + 1 \in 0 .. Len(Directory)
    BY <2>1, <2>2, <2>3 DEF len
  <2>5. next.started = PagesTo(i)
    BY <1>2, <2>1, <2>3, <2>4, PagesToType, ZenonT(40) DEF BundleAt
  <2>6. next.chains[i].got = Directory[i]
    <3>1. CASE IsPageFile(i)
      <4>1. PICK n \in PageNumbers : Pages[n] = i
        BY <3>1 DEF IsPageFile
      <4>2. PagesTo(i) = n
        BY <4>1, PagesToPage
      <4> QED BY <1>2, <2>5, <3>1, <4>1, <4>2
    <3>2. CASE ~IsPageFile(i)
      BY <1>2, <3>2
    <3> QED BY <3>1, <3>2
  <2>7. ASSUME NEW c \in DOMAIN next.chains
        PROVE  /\ c <= i => next.chains[c].got = Directory[c] /\ next.chains[c].at # "idle"
               /\ c > i => next.chains[c].at = "idle"
    <3>1. CASE c = i
      BY <1>2, <2>4, <2>6, <3>1
    <3>2. CASE c # i
      <4>1. next.chains[c] = job.chains[c] /\ c \in DOMAIN job.chains /\ c \in Nat
        BY <1>2, <2>2, <2>7, <3>2
      <4>2. (c <= i => c <= k) /\ (c > i => c > k)
        BY <2>3, <2>4, <3>2, <4>1
      <4> QED BY <2>1, <4>1, <4>2 DEF BundleAt
    <3> QED BY <3>1, <3>2
  <2>8. BundleAt(next, k + 1)
    BY <2>3, <2>5, <2>7 DEF BundleAt
  <2> QED BY <2>2, <2>4, <2>8 DEF BundleOK
<1> QED BY <1>1, <1>2 DEF Starts

\* so they are when the bundle starts.
LEMMA StartFilesFacts ==
  ASSUME NEW id \in Nat, NEW command \in Commands, IsBundling(command)
  PROVE  LET job == StartFiles(JobOf(id, command)) IN
         /\ job \in JobType /\ job.id = id /\ job.page = 0 /\ ~job.answered
         /\ BundleOK(job)
         /\ \A c \in DOMAIN job.chains : ChainOK(0, job.chains[c]) /\ job.chains[c].at \in {"idle", "load"}
<1> DEFINE chains == [i \in DOMAIN Directory |-> Chain("load")]
           At(i) == IF i <= Limit THEN "load" ELSE "idle"
           Got(i) == IF i <= Limit THEN Directory[i] ELSE << >>
           first == [i \in DOMAIN Directory |-> [Chain("load") EXCEPT !.at = At(i), !.got = Got(i)]]
           started == PagesTo(Limit)
           base == [id |-> id, page |-> 0, answered |-> FALSE, started |-> 0, chains |-> chains]
           job == [base EXCEPT !.started = started, !.chains = first]
<1>1. JobOf(id, command) = base
  BY DEF JobOf, IsBundling
<1>2. StartFiles(base) = job
  <2>1. base.chains = chains
    OBVIOUS
  <2>2. \A i \in DOMAIN chains : chains[i] = Chain("load")
    OBVIOUS
  <2>3. StartFiles(base) = [base EXCEPT !.started = started, !.chains = [i \in DOMAIN chains |-> [chains[i] EXCEPT !.at = At(i), !.got = Got(i)]]]
    BY DEF StartFiles, PagesTo
  <2>4. [i \in DOMAIN chains |-> [chains[i] EXCEPT !.at = At(i), !.got = Got(i)]] = first
    OBVIOUS
  <2> QED BY <2>3, <2>4
<1>3. Limit \in Nat /\ started \in Nat /\ Len(Directory) \in Nat /\ DOMAIN Directory = 1 .. Len(Directory)
  BY WorkerAssumption, PagesToType, DirectoryFacts
<1>4. ASSUME NEW i \in DOMAIN Directory
      PROVE  /\ first[i] \in ChainType /\ first[i].at = At(i) /\ first[i].got = Got(i) /\ first[i].waits = {}
             /\ ChainOK(0, first[i])
  <2> DEFINE at == At(i)
             got == Got(i)
  <2>1. at \in {"load", "idle"} /\ got \in Given
    BY <1>3, <1>4, DirectoryFacts DEF Given
  <2> HIDE DEF at, got
  <2>2. /\ [Chain("load") EXCEPT !.at = at, !.got = got] \in ChainType
        /\ [Chain("load") EXCEPT !.at = at, !.got = got].at = at
        /\ [Chain("load") EXCEPT !.at = at, !.got = got].got = got
        /\ [Chain("load") EXCEPT !.at = at, !.got = got].waits = {}
    BY <2>1 DEF Chain, ChainType, Stages, Absent, ObjectId
  <2>3. first[i] = [Chain("load") EXCEPT !.at = at, !.got = got]
    BY <1>4 DEF at, got
  <2> HIDE DEF first
  <2>4. ChainOK(0, first[i])
    BY <2>1, <2>2, <2>3 DEF ChainOK
  <2> QED BY <2>2, <2>3, <2>4 DEF at, got
<1>5. DOMAIN first = DOMAIN Directory /\ first = [i \in DOMAIN Directory |-> first[i]]
  OBVIOUS
<1>6. first \in Seq(ChainType)
  <2> HIDE DEF first
  <2> QED BY <1>3, <1>4, <1>5
<1>9. \A i \in DOMAIN Directory : first[i].at \in {"idle", "load"}
  <2> HIDE DEF first
  <2> QED BY <1>4
<1>7. /\ job \in JobType /\ job.id = id /\ job.page = 0 /\ ~job.answered /\ job.started = started /\ job.chains = first
  <2>1. chains \in Seq(ChainType)
    <3>1. Chain("load") \in ChainType
      BY DEF Chain, ChainType, Stages, Absent, ObjectId, Given
    <3> QED BY <1>3, <3>1
  <2> HIDE DEF first, started, chains
  <2>2. base \in JobType /\ base.id = id /\ base.page = 0 /\ base.answered = FALSE
    BY <2>1 DEF JobType
  <2> HIDE DEF base
  <2> QED BY <1>3, <1>6, <2>2 DEF JobType
<1> HIDE DEF job, base, first, started, chains
<1>8. BundleOK(job)
  <2> DEFINE len == Len(Directory)
  <2>1. CASE Limit <= len
    <3>1. \A i \in DOMAIN first : /\ i <= Limit => first[i].got = Directory[i] /\ first[i].at # "idle"
                                  /\ i > Limit => first[i].at = "idle"
      BY <1>3, <1>4, <1>5
    <3>2. BundleAt(job, Limit)
      BY <1>7, <3>1 DEF BundleAt, started
    <3> QED BY <1>3, <1>5, <1>7, <2>1, <3>2 DEF BundleOK
  <2>2. CASE Limit > len
    <3>1. PagesTo(Limit) = PagesTo(len)
      <4>1. \A i \in 1 .. Limit : IsPageFile(i) => i \in 1 .. len
        BY DirectoryFacts DEF IsPageFile
      <4>2. 1 .. len \subseteq 1 .. Limit
        BY <1>3, <2>2
      <4>3. {i \in 1 .. Limit : IsPageFile(i)} = {i \in 1 .. len : IsPageFile(i)}
        BY <4>1, <4>2
      <4> QED BY <4>3 DEF PagesTo
    <3>2. \A i \in DOMAIN first : /\ i <= len => first[i].got = Directory[i] /\ first[i].at # "idle"
                                  /\ i > len => first[i].at = "idle"
      BY <1>3, <1>4, <1>5, <2>2
    <3>3. BundleAt(job, len)
      BY <1>7, <3>1, <3>2 DEF BundleAt, started
    <3> QED BY <1>3, <1>5, <1>7, <3>3 DEF BundleOK
  <2> QED BY <1>3, <2>1, <2>2
<1> QED BY <1>1, <1>2, <1>4, <1>5, <1>7, <1>8, <1>9

\* A file of a bundle is there or is not, and another is started.
FileEnds(t, c, job) ==
  /\ job \in JobType /\ job.id = jobs[t].id /\ job.page = jobs[t].page /\ job.answered = jobs[t].answered
  /\ job.started = jobs[t].started /\ DOMAIN job.chains = Chains(t)
  /\ job.chains[c].at \in {"done", "failed"}
  /\ job.chains[c].got = jobs[t].chains[c].got /\ job.chains[c].waits = jobs[t].chains[c].waits
  /\ \A e \in Chains(t) : e # c => job.chains[e] = jobs[t].chains[e]
FileStep(t, c) ==
  /\ jobs[t].page = 0 /\ jobs[t].chains[c].at = "load" /\ doc' = doc
  /\ \E job \in JobType : \E next : FileEnds(t, c, job) /\ Starts(job, next) /\ Posted(t, next)

\* One file of a bundle that ends leaves the others.
LEMMA FileEndsFacts ==
  ASSUME JobsOK, NEW t \in Tasks, NEW c \in Chains(t), NEW at \in {"done", "failed"}
  PROVE  FileEnds(t, c, SetChain(t, c, [jobs[t].chains[c] EXCEPT !.at = at]))
<1> DEFINE chain == jobs[t].chains[c]
           end == [chain EXCEPT !.at = at]
<1>1. chain \in ChainType
  BY ChainFacts
<1>2. end \in ChainType /\ end.at = at /\ end.got = chain.got /\ end.waits = chain.waits
  <2> HIDE DEF chain
  <2> QED BY <1>1 DEF ChainType, Stages
<1> HIDE DEF end
<1> DEFINE job == SetChain(t, c, end)
<1>3. /\ job \in JobType /\ job.id = jobs[t].id /\ job.page = jobs[t].page
      /\ job.answered = jobs[t].answered /\ job.started = jobs[t].started
      /\ DOMAIN job.chains = Chains(t) /\ job.chains[c] = end
      /\ \A e \in Chains(t) : e # c => job.chains[e] = jobs[t].chains[e]
  BY <1>2, SetChainFacts
<1> HIDE DEF job
<1>4. FileEnds(t, c, job)
  BY <1>2, <1>3 DEF FileEnds
<1> QED BY <1>4 DEF job, end

\* A file that arrives is a step of its bundle,
LEMMA FileArrivesFacts ==
  ASSUME TypeInv, PagesOwn, NEW t \in Tasks, NEW c \in Chains(t), FileArrives(t, c)
  PROVE  FileStep(t, c)
<1>1. ControlOK /\ JobsOK
  BY DEF TypeInv
<1> DEFINE job == SetChain(t, c, [jobs[t].chains[c] EXCEPT !.at = "done"])
           told == <<Cardinality({i \in DOMAIN job.chains : job.chains[i].at = "done"})>>
<1>2. jobs[t].page = 0
  <2>1. ChainOK(jobs[t].page, jobs[t].chains[c]) /\ jobs[t].chains[c].at = "load"
    BY DEF PagesOwn, HeldOwn, FileArrives
  <2> QED BY <2>1, SMTT(30) DEF ChainOK
<1>3. FileEnds(t, c, job)
  BY <1>1, FileEndsFacts
<1>4. job \in JobType
  BY <1>3 DEF FileEnds
<1>5. Starts(job, StartFile(job)) /\ StartFile(job) \in JobType
  BY <1>4, StartFileFacts DEF Starts
<1>6. Post(t, StartFile(job), told)
  BY DEF FileArrives
<1> HIDE DEF job
<1>7. told \in Seq(Nat)
  <2> DEFINE S == {i \in DOMAIN job.chains : job.chains[i].at = "done"}
  <2>1. S \subseteq 1 .. Len(job.chains) /\ Len(job.chains) \in Nat
    BY <1>4, JobFields
  <2>2. IsFiniteSet(S)
    BY <2>1, FS_Interval, FS_Subset
  <2> HIDE DEF S
  <2>3. Cardinality(S) \in Nat
    BY <2>2, FS_CardinalityType
  <2> QED BY <2>3 DEF S
<1> HIDE DEF told
<1>8. Posted(t, StartFile(job))
  BY <1>1, <1>5, <1>6, <1>7, PostFacts
<1> QED BY <1>2, <1>3, <1>4, <1>5, <1>8 DEF FileStep, FileArrives

\* and a load that fails one of its bundle or of its page's chain.
LEMMA LoadFailsFacts ==
  ASSUME TypeInv, PagesOwn, NEW t \in Tasks, NEW c \in Chains(t), LoadFails(t, c)
  PROVE  PageStep(t, c) \/ FileStep(t, c)
<1> DEFINE chain == jobs[t].chains[c]
           n == jobs[t].page
           failed == [chain EXCEPT !.at = "failed"]
           job == SetChain(t, c, failed)
<1>1. ControlOK /\ JobsOK /\ DocOK(doc) /\ doc' = doc
  <2>1. doc' = doc
    BY Zenon DEF LoadFails
  <2> QED BY <2>1 DEF TypeInv, ObjectsOK
<1>2. chain \in ChainType /\ n \in {0} \union PageNumbers /\ ChainOK(n, chain)
  BY <1>1, ChainFacts DEF PagesOwn, HeldOwn
<1>3. Grows(doc, doc', n, <<jobs[t].id, c>>) /\ Slack(doc) \in Int
  BY <1>1, TouchesItself, TouchesGrows, SlackType
\* A chain of a page that fails.
<1>4. ASSUME n \in PageNumbers, NEW end \in ChainType, end.at = "failed", Post(t, SetChain(t, c, end), << >>)
      PROVE  PageStep(t, c)
  <2>1. ~Holds(end) /\ Counts(end) = 0 /\ Counts(chain) \in {0, 1}
    BY <1>4 DEF Holds, Counts
  <2>2. Slack(doc') - Counts(end) >= Slack(doc) - Counts(chain)
    BY <1>1, <1>3, <2>1
  <2> QED BY <1>1, <1>3, <1>4, <2>1, <2>2, WaitStep
<1>5. CASE chain.at \in {"page", "load"} /\ Post(t, StartFile(job), << >>)
  <2>1. FileEnds(t, c, job) /\ job \in JobType
    BY <1>1, FileEndsFacts DEF FileEnds
  <2>2. << >> \in Seq(Nat)
    OBVIOUS
  <2>3. Starts(job, StartFile(job)) /\ StartFile(job) \in JobType
    BY <2>1, StartFileFacts DEF Starts
  <2>4. CASE n = 0
    <3>1. chain.at = "load"
      BY <1>2, <1>5, <2>4 DEF ChainOK
    <3>2. Posted(t, StartFile(job))
      BY <1>1, <1>5, <2>2, <2>3, PostFacts
    <3> QED BY <1>1, <2>1, <2>3, <2>4, <3>1, <3>2 DEF FileStep
  <2>5. CASE n # 0
    <3>1. failed \in ChainType /\ failed.at = "failed"
      <4> HIDE DEF chain
      <4> QED BY <1>2 DEF ChainType, Stages
    <3> HIDE DEF failed
    <3>2. \A e \in DOMAIN job.chains : job.chains[e].at # "idle"
      <4>1. \A e \in Chains(t) : ChainOK(n, jobs[t].chains[e])
        BY DEF PagesOwn, HeldOwn
      <4>2. \A e \in Chains(t) : jobs[t].chains[e].at # "idle"
        BY <2>5, <4>1 DEF ChainOK
      <4>3. job.chains[c].at # "idle"
        BY <2>1 DEF FileEnds
      <4> HIDE DEF job
      <4> QED BY <2>1, <4>2, <4>3 DEF FileEnds
    <3>3. StartFile(job) = job
      BY <3>2 DEF StartFile
    <3> QED BY <1>2, <1>4, <1>5, <2>5, <3>1, <3>3
  <2> QED BY <2>4, <2>5
<1>6. ASSUME NEW id \in chain.waits, Post(t, SetChain(t, c, [chain EXCEPT !.at = "failed", !.waits = @ \ {id}]), << >>)
      PROVE  PageStep(t, c)
  <2> DEFINE end == [chain EXCEPT !.at = "failed", !.waits = @ \ {id}]
  <2>1. end \in ChainType /\ end.at = "failed"
    <3> HIDE DEF chain
    <3> QED BY <1>2 DEF ChainType, Stages
  <2>2. n \in PageNumbers
    BY <1>2, <1>6 DEF ChainOK
  <2> HIDE DEF end
  <2> QED BY <1>4, <1>6, <2>1, <2>2 DEF end
<1>7. \/ chain.at \in {"page", "load"} /\ Post(t, StartFile(job), << >>)
      \/ \E id \in chain.waits : Post(t, SetChain(t, c, [chain EXCEPT !.at = "failed", !.waits = @ \ {id}]), << >>)
  BY Zenon DEF LoadFails
<1>8. ASSUME \E id \in chain.waits : Post(t, SetChain(t, c, [chain EXCEPT !.at = "failed", !.waits = @ \ {id}]), << >>)
      PROVE  PageStep(t, c)
  BY <1>6, <1>8, Zenon
<1> QED BY <1>5, <1>7, <1>8, Zenon

\* What the worker makes of a command it is sent.
Taken(sent, done) ==
  /\ done \in JobType /\ done.id = sent.id /\ done.page = sent.command.page /\ ~done.answered
  /\ Posted(sent.task, done)
  /\ Touches(doc, doc')
  /\ done.page = 0 => BundleOK(done) /\ doc' = doc
  /\ \A c \in DOMAIN done.chains :
       /\ ChainOK(done.page, done.chains[c])
       /\ doc.kind = "indirect" => Counts(done.chains[c]) = 0
       /\ Holds(done.chains[c]) => IsObject(doc', done.chains[c].obj) /\ doc'.objs[done.chains[c].obj].page = done.page
  /\ AllFull(doc) /\ (\A c \in DOMAIN done.chains : done.chains[c].at # "failed") =>
       /\ AllFull(doc')
       /\ done.page # 0 => \A c \in DOMAIN done.chains :
            done.chains[c].at \in {"blob", "done"} => done.chains[c].got = <<done.page, Parts(done.page)>>

\* A command is a bundling or the calls of a page.
LEMMA CommandFacts ==
  ASSUME NEW command \in Commands
  PROVE  \/ command.page = 0 /\ IsBundling(command)
         \/ command.page \in PageNumbers /\ ~IsBundling(command)
            /\ command.uses \in Seq({"png", "draw", "read"})
<1>1. 0 \notin PageNumbers /\ UseLists \in [PageNumbers -> Seq({"png", "draw", "read"})]
  BY NeedsFacts, WorkerAssumption
<1> QED BY <1>1 DEF Commands, IsBundling

\* The chains of a command for a page, before its first call.
LEMMA JobOfPage ==
  ASSUME NEW id \in Nat, NEW command \in Commands, command.page \in PageNumbers
  PROVE  LET job == JobOf(id, command) IN
         /\ job \in JobType /\ job.id = id /\ job.page = command.page /\ job.answered = FALSE
         /\ \A c \in DOMAIN job.chains : job.chains[c].waits = {} /\ job.chains[c].at = "idle"
<1> DEFINE uses == command.uses
           chains == [c \in DOMAIN uses |-> Chain(uses[c])]
           job == [id |-> id, page |-> command.page, answered |-> FALSE, started |-> 0, chains |-> chains]
<1>1. ~IsBundling(command) /\ uses \in Seq({"png", "draw", "read"})
  BY CommandFacts, NeedsFacts
<1>2. JobOf(id, command) = job
  BY <1>1 DEF JobOf
<1>3. \A c \in DOMAIN uses : Chain(uses[c]) \in ChainType /\ Chain(uses[c]).waits = {} /\ Chain(uses[c]).at = "idle"
  <2> TAKE c \in DOMAIN uses
  <2>1. uses[c] \in {"png", "draw", "read"}
    BY <1>1
  <2> QED BY <2>1 DEF Chain, ChainType, Stages, Absent, ObjectId, Given
<1>4. DOMAIN uses = 1 .. Len(uses) /\ Len(uses) \in Nat
  BY <1>1
<1> HIDE DEF uses
<1>5. chains \in Seq(ChainType) /\ DOMAIN chains = DOMAIN uses
      /\ \A c \in DOMAIN chains : chains[c].waits = {} /\ chains[c].at = "idle"
  BY <1>3, <1>4
<1> HIDE DEF chains
<1>6. job \in JobType /\ job.id = id /\ job.page = command.page /\ job.answered = FALSE /\ job.chains = chains
  BY <1>5 DEF JobType
<1> QED BY <1>2, <1>5, <1>6, ZenonT(40) DEF chains, uses

\* The same command with its chains further on.
LEMMA JobOn ==
  ASSUME NEW job \in JobType, NEW chains, chains \in [DOMAIN job.chains -> ChainType]
  PROVE  LET next == [job EXCEPT !.chains = chains] IN
         /\ next \in JobType /\ next.id = job.id /\ next.page = job.page /\ next.answered = job.answered
         /\ next.chains = chains /\ DOMAIN next.chains = DOMAIN job.chains
<1>1. DOMAIN job.chains = 1 .. Len(job.chains) /\ Len(job.chains) \in Nat
  BY JobFields
<1>2. chains \in Seq(ChainType) /\ DOMAIN chains = DOMAIN job.chains
  BY <1>1
<1> DEFINE next == [job EXCEPT !.chains = chains]
<1>3. next \in JobType /\ next.id = job.id /\ next.page = job.page /\ next.answered = job.answered /\ next.chains = chains
  BY <1>2 DEF JobType
<1> QED BY <1>2, <1>3

\* The chains of a command for a page that is there, one after another.
AllEnds(d, o, chains, seen) == [c \in DOMAIN chains |-> Use(With(d, o, seen[c]), chains[c], o).chain]

\* The chains of a page that is there use it one after another, each with all its files unless one fails.
LEMMA AllUse ==
  ASSUME NEW d, DocOK(d), NEW o, IsObject(d, o), NEW n, d.objs[o].page = n, n \in PageNumbers,
         NEW chains \in Seq(ChainType), \A c \in DOMAIN chains : chains[c].waits = {},
         NEW seen \in UseAll(d, chains, o)
  PROVE  LET e == With(d, o, seen[Len(chains) + 1])
             ends == AllEnds(d, o, chains, seen)
         IN  /\ Touches(d, e) /\ e.objs[o].page = n /\ IsObject(e, o)
             /\ ends \in [DOMAIN chains -> ChainType]
             /\ \A c \in DOMAIN chains : /\ ChainOK(n, ends[c]) /\ Counts(ends[c]) = 0
                                         /\ Holds(ends[c]) => ends[c].obj = o
             /\ AllFull(d) /\ (\A c \in DOMAIN chains : ends[c].at # "failed") =>
                  /\ AllFull(e)
                  /\ \A c \in DOMAIN chains : ends[c].got = <<n, Parts(n)>>
<1> DEFINE len == Len(chains)
           e == With(d, o, seen[len + 1])
           Now(c) == With(d, o, seen[c])
           end == AllEnds(d, o, chains, seen)
<1>0. end = [c \in DOMAIN chains |-> Use(Now(c), chains[c], o).chain]
  BY DEF AllEnds
<1>1. /\ len \in Nat /\ DOMAIN chains = 1 .. len /\ len + 1 \in 1 .. (len + 1)
      /\ \A c \in DOMAIN chains : chains[c] \in ChainType /\ c \in 1 .. (len + 1)
  OBVIOUS
<1>2. \A c \in 1 .. (len + 1) :
        /\ Touches(d, Now(c)) /\ DocOK(Now(c)) /\ IsObject(Now(c), o) /\ Now(c).objs[o].page = n
        /\ AllFull(d) /\ Full(seen[c]) => AllFull(Now(c))
  <2> TAKE c \in 1 .. (len + 1)
  <2>1. /\ Touches(d, Now(c))
        /\ AllFull(d) /\ Full(seen[c]) => AllFull(Now(c))
    BY WithFacts
  <2> QED BY <2>1 DEF Touches, IsObject, Renewed
<1>3. n # 0
  BY NeedsFacts
<1>4. ASSUME NEW c \in DOMAIN chains
      PROVE  /\ end[c] \in ChainType /\ ChainOK(n, end[c]) /\ Counts(end[c]) = 0
             /\ Holds(end[c]) => end[c].obj = o
  <2>1. Ends(chains[c], o, Use(Now(c), chains[c], o).chain)
    BY <1>1, <1>2, <1>4, ChainUse
  <2>2. end[c] = Use(Now(c), chains[c], o).chain
    BY <1>0, <1>4
  <2> HIDE DEF end
  <2>3. Ends(chains[c], o, end[c])
    BY <2>1, <2>2
  <2> QED BY <1>3, <1>4, <2>3 DEF Ends, ChainOK, Counts
<1>5. ASSUME AllFull(d), \A c \in DOMAIN chains : end[c].at # "failed"
      PROVE  AllFull(e) /\ \A c \in DOMAIN chains : end[c].got = <<n, Parts(n)>>
  <2>1. \A c \in DOMAIN chains : Use(Now(c), chains[c], o).chain.at # "failed"
    BY <1>0, <1>5
  <2>2. \A c \in 1 .. (len + 1) : Full(seen[c])
    BY <1>5, <2>1, UseAllFull
  <2>3. AllFull(e)
    BY <1>1, <1>2, <1>5, <2>2
  <2>4. ASSUME NEW c \in DOMAIN chains PROVE end[c].got = <<n, Parts(n)>>
    <3>1. AllFull(Now(c)) /\ DocOK(Now(c)) /\ IsObject(Now(c), o) /\ Now(c).objs[o].page = n
      BY <1>1, <1>2, <1>5, <2>2, <2>4
    <3>2. Use(Now(c), chains[c], o).chain.got = <<Now(c).objs[o].page, Parts(Now(c).objs[o].page)>>
      BY <1>1, <2>1, <2>4, <3>1, UseFull
    <3>3. end[c] = Use(Now(c), chains[c], o).chain
      BY <1>0, <2>4
    <3> QED BY <3>1, <3>2, <3>3
  <2> QED BY <2>3, <2>4
<1>6. Touches(d, e) /\ e.objs[o].page = n /\ IsObject(e, o)
  BY <1>1, <1>2
<1>7. end \in [DOMAIN chains -> ChainType]
  <2>1. end = [c \in DOMAIN chains |-> end[c]]
    BY <1>0
  <2> HIDE DEF end
  <2> QED BY <1>4, <2>1
<1> HIDE DEF e
<1>8. \A c \in DOMAIN chains : ChainOK(n, end[c]) /\ Counts(end[c]) = 0 /\ (Holds(end[c]) => end[c].obj = o)
  BY <1>4
<1> HIDE DEF end
<1> QED BY <1>5, <1>6, <1>7, <1>8 DEF e, end

ToParts(chain, missing, o) == [chain EXCEPT !.at = "parts", !.waits = missing, !.obj = o]

\* A chain that waits for shared files.
LEMMA ToPartsFacts ==
  ASSUME NEW chain \in ChainType, NEW missing \in SUBSET Shared, NEW o \in ObjectId
  PROVE  ToParts(chain, missing, o) \in ChainType /\ ToParts(chain, missing, o).at = "parts"
         /\ ToParts(chain, missing, o).obj = o
BY DEF ToParts, ChainType, Stages

\* Whatever the command and the document, what the worker makes of it is Taken.
LEMMA ReceiveFacts ==
  ASSUME TypeInv, PagesOwn, Receive
  PROVE  \E done : Taken(Head(toWorker), done)
<1> DEFINE sent == Head(toWorker)
           t == sent.task
           command == sent.command
           n == command.page
           job == JobOf(sent.id, command)
           asked == AskForPage(doc, n)
           o == asked.last
           missing == Parts(n) \ doc.djvi
           chains == job.chains
           there == [asked EXCEPT !.depsLoaded = doc.kind = "single"]
           atPage == [c \in DOMAIN chains |-> [chains[c] EXCEPT !.at = "page"]]
           atParts == [c \in DOMAIN chains |-> ToParts(chains[c], missing, o)]
<1>1. ControlOK /\ JobsOK /\ DocOK(doc)
  BY DEF TypeInv, ObjectsOK
<1>2. sent \in CommandType
  <2>1. toWorker \in Seq(CommandType)
    BY <1>1 DEF ControlOK
  <2>2. toWorker # << >>
    BY Zenon DEF Receive
  <2> QED BY <2>1, <2>2
<1>3. t \in Tasks /\ sent.id \in Nat /\ command \in Commands
  BY <1>2 DEF CommandType
<1>4. << >> \in Seq(Nat)
  OBVIOUS
<1>5. \/ n = 0 /\ Post(t, StartFiles(job), << >>) /\ doc' = doc
      \/ /\ n \in PageNumbers /\ o = Absent /\ doc' = asked
         /\ Post(t, [job EXCEPT !.chains = atPage], << >>)
      \/ /\ n \in PageNumbers /\ o # Absent /\ NeedsParts(doc) /\ missing # {} /\ doc' = asked
         /\ Post(t, [job EXCEPT !.chains = atParts], << >>)
      \/ /\ n \in PageNumbers /\ o # Absent
         /\ \E d \in {there} : \E seen \in UseAll(d, chains, d.last) :
              /\ doc' = With(d, d.last, seen[Len(chains) + 1])
              /\ Post(t, [job EXCEPT !.chains = AllEnds(d, d.last, chains, seen)], << >>)
  BY Zenon DEF Receive, ToParts, AllEnds
<1>6. CASE n = 0 /\ Post(t, StartFiles(job), << >>) /\ doc' = doc
  <2>1. IsBundling(command)
    BY <1>6 DEF IsBundling
  <2> DEFINE done == StartFiles(job)
  <2>2. /\ done \in JobType /\ done.id = sent.id /\ done.page = 0 /\ ~done.answered
        /\ BundleOK(done)
        /\ \A c \in DOMAIN done.chains : ChainOK(0, done.chains[c]) /\ done.chains[c].at \in {"idle", "load"}
    BY <1>3, <2>1, StartFilesFacts
  <2> HIDE DEF done, job
  <2>3. Posted(t, done)
    BY <1>1, <1>3, <1>4, <1>6, <2>2, PostFacts DEF done
  <2>4. Touches(doc, doc')
    BY <1>1, <1>6, TouchesItself
  <2>5. Taken(sent, done)
    BY <1>6, <2>2, <2>3, <2>4 DEF Taken, Counts, Holds
  <2> QED BY <2>5
<1>7. ASSUME n \in PageNumbers
      PROVE  /\ job \in JobType /\ job.id = sent.id /\ job.page = n /\ job.answered = FALSE
             /\ \A c \in DOMAIN chains : chains[c].waits = {} /\ chains[c].at = "idle"
             /\ chains \in Seq(ChainType) /\ \A c \in DOMAIN chains : chains[c] \in ChainType
  <2>1. /\ job \in JobType /\ job.id = sent.id /\ job.page = n /\ job.answered = FALSE
        /\ \A c \in DOMAIN chains : chains[c].waits = {} /\ chains[c].at = "idle"
    BY <1>3, <1>7, JobOfPage, ZenonT(40)
  <2> HIDE DEF job
  <2> QED BY <2>1, JobFields
<1>8. ASSUME n \in PageNumbers
      PROVE  /\ Touches(doc, asked) /\ DocOK(asked) /\ o = doc.pages[n] /\ (AllFull(doc) => AllFull(asked))
             /\ o # Absent => IsObject(asked, o) /\ asked.objs[o].page = n
  <2>1. Touches(doc, asked) /\ o = doc.pages[n]
    BY <1>1, <1>8, AskFacts
  <2>2. DocOK(asked)
    BY <2>1, SMTT(30) DEF Touches
  <2>3. o # Absent => IsObject(asked, o) /\ asked.objs[o].page = n
    BY <1>8, <2>1 DEF PagesOwn, KeptOwn, Touches, Renewed, IsObject
  <2>4. AllFull(doc) => AllFull(asked)
    <3> DEFINE reset == IF doc.last # doc.pages[n] THEN ResetPage(doc, doc.last) ELSE doc
    <3>1. asked.objs = reset.objs /\ DOMAIN asked.objs = DOMAIN reset.objs
      <4>1. reset \in DocType
        <5>1. DocOK(ResetPage(doc, doc.last))
          BY <1>1, ResetFacts DEF DocOK, Touches
        <5> QED BY <1>1, <5>1 DEF DocOK
      <4>2. asked = [reset EXCEPT !.last = doc.pages[n]]
        BY DEF AskForPage
      <4> HIDE DEF reset
      <4> QED BY <4>1, <4>2 DEF DocType
    <3>2. AllFull(doc) => AllFull(reset)
      BY <1>1, ResetFull DEF DocOK
    <3> QED BY <3>1, <3>2 DEF AllFull
  <2> QED BY <2>1, <2>2, <2>3, <2>4
<1>9. CASE n \in PageNumbers /\ o = Absent /\ doc' = asked /\ Post(t, [job EXCEPT !.chains = atPage], << >>)
  <2> DEFINE done == [job EXCEPT !.chains = atPage]
  <2> HIDE DEF job, o, asked
  <2>1. \A c \in DOMAIN chains : /\ [chains[c] EXCEPT !.at = "page"] \in ChainType
                                 /\ [chains[c] EXCEPT !.at = "page"].at = "page"
                                 /\ [chains[c] EXCEPT !.at = "page"].waits = {}
    <3> TAKE c \in DOMAIN chains
    <3> DEFINE chain == chains[c]
    <3>1. chain \in ChainType /\ chain.waits = {}
      BY <1>7, <1>9
    <3> HIDE DEF chain
    <3>2. [chain EXCEPT !.at = "page"] \in ChainType /\ [chain EXCEPT !.at = "page"].at = "page" /\ [chain EXCEPT !.at = "page"].waits = {}
      BY <3>1 DEF ChainType, Stages
    <3> QED BY <3>2 DEF chain
  <2>2. atPage \in [DOMAIN chains -> ChainType] /\ \A c \in DOMAIN chains : atPage[c].at = "page" /\ atPage[c].waits = {}
    BY <2>1
  <2> HIDE DEF atPage
  <2>3. /\ done \in JobType /\ done.id = job.id /\ done.page = job.page /\ done.answered = job.answered
        /\ done.chains = atPage /\ DOMAIN done.chains = DOMAIN chains
    BY <1>7, <1>9, <2>2, JobOn
  <2> HIDE DEF done
  <2>4. Posted(t, done)
    BY <1>1, <1>3, <1>4, <1>9, <2>3, PostFacts DEF done
  <2>5. n # 0
    BY <1>9, NeedsFacts
  <2>6. Taken(sent, done)
    BY <1>7, <1>8, <1>9, <2>2, <2>3, <2>4, <2>5 DEF Taken, ChainOK, Counts, Holds
  <2> QED BY <2>6
<1>10. CASE n \in PageNumbers /\ o # Absent /\ NeedsParts(doc) /\ doc' = asked /\ Post(t, [job EXCEPT !.chains = atParts], << >>)
  <2> DEFINE done == [job EXCEPT !.chains = atParts]
  <2>0. missing \in SUBSET Shared /\ o \in ObjectId /\ doc.kind # "indirect"
    <3>1. o = doc.pages[n] /\ n \in PageNumbers
      BY <1>8, <1>10
    <3>2. doc.pages \in [PageNumbers -> ObjectId]
      BY <1>1, DocFields DEF DocType
    <3>3. doc.kind # "indirect"
      BY <1>10 DEF NeedsParts
    <3>4. missing \in SUBSET Shared
      BY <1>10, NeedsFacts
    <3> HIDE DEF o
    <3> QED BY <3>1, <3>2, <3>3, <3>4
  <2> HIDE DEF job, o, asked, missing
  <2>1. \A c \in DOMAIN chains : /\ ToParts(chains[c], missing, o) \in ChainType
                                 /\ ToParts(chains[c], missing, o).at = "parts"
                                 /\ ToParts(chains[c], missing, o).obj = o
    BY <1>7, <1>10, <2>0, ToPartsFacts, ZenonT(40)
  <2>2. atParts \in [DOMAIN chains -> ChainType] /\ \A c \in DOMAIN chains : atParts[c].at = "parts" /\ atParts[c].obj = o
    BY <2>1
  <2> HIDE DEF atParts
  <2>3. /\ done \in JobType /\ done.id = job.id /\ done.page = job.page /\ done.answered = job.answered
        /\ done.chains = atParts /\ DOMAIN done.chains = DOMAIN chains
    BY <1>7, <1>10, <2>2, JobOn, ZenonT(40)
  <2> HIDE DEF done
  <2>4. Posted(t, done)
    BY <1>1, <1>3, <1>4, <1>10, <2>3, PostFacts DEF done
  <2>5. n # 0
    BY <1>10, NeedsFacts
  <2>6. Taken(sent, done)
    BY <1>7, <1>8, <1>10, <2>0, <2>2, <2>3, <2>4, <2>5 DEF Taken, ChainOK, Counts, Holds
  <2> QED BY <2>6
<1>11. ASSUME n \in PageNumbers, o # Absent,
              NEW d \in {there}, NEW seen \in UseAll(d, chains, d.last),
              doc' = With(d, d.last, seen[Len(chains) + 1]),
              Post(t, [job EXCEPT !.chains = AllEnds(d, d.last, chains, seen)], << >>)
       PROVE  \E done : Taken(sent, done)
  <2>0. n \in PageNumbers /\ o # Absent
    BY <1>11, Zenon
  <2>01. d = there /\ seen \in UseAll(d, chains, d.last)
    BY <1>11, Zenon
  <2>1. /\ DocOK(d) /\ Touches(asked, d) /\ d.objs = asked.objs /\ d.last = o
    <3>1. asked \in DocType /\ DocOK(asked)
      <4>1. DocOK(asked)
        BY <1>8, <2>0
      <4> HIDE DEF asked
      <4> QED BY <4>1 DEF DocOK
    <3> DEFINE single == doc.kind = "single"
    <3>2. single \in BOOLEAN
      OBVIOUS
    <3>3. there = [asked EXCEPT !.depsLoaded = single]
      OBVIOUS
    <3> HIDE DEF asked, single
    <3>4. there \in DocType /\ there.objs = asked.objs /\ there.last = asked.last /\ SameFiles(asked, there)
      BY <3>1, <3>2, <3>3 DEF DocType, SameFiles
    <3> HIDE DEF there
    <3> QED BY <2>01, <3>1, <3>4 DEF Touches, DocOK, IsObject, SameFiles, Renewed
  <2> DEFINE x == d.last
             e == With(d, x, seen[Len(chains) + 1])
             ends == AllEnds(d, x, chains, seen)
             done == [job EXCEPT !.chains = ends]
  <2>2. IsObject(d, x) /\ d.objs[x].page = n /\ x = o /\ (AllFull(doc) => AllFull(d))
    <3>1. IsObject(asked, o) /\ asked.objs[o].page = n /\ (AllFull(doc) => AllFull(asked))
      BY <1>8, <2>0
    <3> HIDE DEF asked, o
    <3> QED BY <2>1, <3>1 DEF IsObject, AllFull
  <2>3. /\ Touches(d, e) /\ e.objs[x].page = n /\ IsObject(e, x)
        /\ ends \in [DOMAIN chains -> ChainType]
        /\ \A c \in DOMAIN chains : /\ ChainOK(n, ends[c]) /\ Counts(ends[c]) = 0
                                    /\ Holds(ends[c]) => ends[c].obj = x
        /\ AllFull(d) /\ (\A c \in DOMAIN chains : ends[c].at # "failed") =>
             /\ AllFull(e)
             /\ \A c \in DOMAIN chains : ends[c].got = <<n, Parts(n)>>
    <3>1. chains \in Seq(ChainType) /\ \A c \in DOMAIN chains : chains[c].waits = {}
      BY <1>7, <2>0
    <3>2. DocOK(d) /\ IsObject(d, x) /\ d.objs[x].page = n /\ n \in PageNumbers /\ seen \in UseAll(d, chains, x)
      BY <2>0, <2>01, <2>1, <2>2
    <3> HIDE DEF chains, x, n
    <3> QED BY <3>1, <3>2, AllUse, SMTT(30)
  <2>4. doc' = e /\ Post(t, done, << >>)
    BY <1>11, Zenon
  <2> HIDE DEF e, ends, job, x, asked, o, there
  <2>5. /\ done \in JobType /\ done.id = job.id /\ done.page = job.page /\ done.answered = job.answered
        /\ done.chains = ends /\ DOMAIN done.chains = DOMAIN chains
    BY <1>7, <2>0, <2>3, JobOn
  <2> HIDE DEF done
  <2>6. Posted(t, done)
    BY <1>1, <1>3, <1>4, <2>4, <2>5, PostFacts
  <2>7. Touches(doc, doc')
    <3>1. Touches(doc, asked) /\ Touches(asked, d) /\ Touches(d, doc')
      BY <1>8, <2>0, <2>1, <2>3, <2>4
    <3> QED BY <3>1, TouchesTwice
  <2>8. n # 0
    BY <2>0, NeedsFacts
  <2>9. Taken(sent, done)
    BY <1>7, <2>0, <2>2, <2>3, <2>4, <2>5, <2>6, <2>7, <2>8 DEF Taken
  <2> QED BY <2>9
<1>12. CASE /\ n \in PageNumbers /\ o # Absent
            /\ \E d \in {there} : \E seen \in UseAll(d, chains, d.last) :
              /\ doc' = With(d, d.last, seen[Len(chains) + 1])
              /\ Post(t, [job EXCEPT !.chains = AllEnds(d, d.last, chains, seen)], << >>)
  BY <1>11, <1>12, Zenon
<1> QED BY <1>5, <1>6, <1>9, <1>10, <1>12, Zenon

-----------------------------------------------------------------------------
(* A step of the worker on a command it has. *)

GoesOn(t) ==
  \E done \in JobType :
    /\ done.id = jobs[t].id /\ done.page = jobs[t].page /\ done.answered = jobs[t].answered
    /\ Posted(t, done)
    /\ DOMAIN done.chains = Chains(t)

\* A step of a chain goes on with its command,
LEMMA PageGoesOn ==
  ASSUME JobsOK, NEW t \in Tasks, NEW c \in Chains(t), PageStep(t, c)
  PROVE  GoesOn(t)
<1>1. PICK end \in ChainType : Posted(t, SetChain(t, c, end))
  BY DEF PageStep
<1> QED BY <1>1, SetChainFacts DEF GoesOn

\* and so does a step of a bundle.
LEMMA FileGoesOn ==
  ASSUME NEW t \in Tasks, NEW c \in Chains(t), FileStep(t, c)
  PROVE  GoesOn(t)
BY DEF FileStep, FileEnds, Starts, GoesOn

\* What Posted says of the job and of the messages.
LEMMA PostedFacts ==
  ASSUME ControlOK, JobsOK, NEW t \in Tasks, NEW done \in JobType, Posted(t, done)
  PROVE  /\ jobs' \in [Tasks -> JobType] /\ toPage' \in Seq(MessageType)
         /\ \A u \in Tasks : u # t => jobs'[u] = jobs[u]
         /\ jobs'[t] \in JobType /\ SameButAnswered(jobs'[t], done) /\ (done.answered => jobs'[t].answered)
         /\ \A i \in DOMAIN toPage : i \in DOMAIN toPage' /\ toPage'[i] = toPage[i]
         /\ \A i \in DOMAIN toPage' :
              \/ i \in DOMAIN toPage /\ toPage'[i] = toPage[i]
              \/ i \notin DOMAIN toPage /\ toPage'[i].is = "progress"
              \/ /\ i \notin DOMAIN toPage /\ i = Len(toPage') /\ jobs'[t].answered /\ ~done.answered
                 /\ IsReply(toPage'[i], t, done)
         /\ jobs'[t].answered /\ ~done.answered =>
              /\ Len(toPage') \in DOMAIN toPage' /\ Len(toPage') \notin DOMAIN toPage
              /\ IsReply(toPage'[Len(toPage')], t, done)
<1>1. PICK job \in JobType :
        /\ jobs' = [jobs EXCEPT ![t] = job] /\ SameButAnswered(job, done)
        /\ done.answered => job.answered
        /\ toPage' \in Seq(MessageType) /\ Len(toPage') >= Len(toPage)
        /\ \A i \in DOMAIN toPage : toPage'[i] = toPage[i]
        /\ \A i \in DOMAIN toPage' \ DOMAIN toPage :
             toPage'[i].is = "progress" \/ (i = Len(toPage') /\ job.answered /\ ~done.answered)
        /\ job.answered /\ ~done.answered =>
             Len(toPage') \notin DOMAIN toPage /\ Len(toPage') \in DOMAIN toPage' /\ IsReply(toPage'[Len(toPage')], t, done)
  BY DEF Posted
<1>2. jobs \in [Tasks -> JobType] /\ toPage \in Seq(MessageType)
  BY DEF JobsOK, ControlOK
<1>3. /\ jobs' \in [Tasks -> JobType] /\ jobs'[t] = job
      /\ \A u \in Tasks : u # t => jobs'[u] = jobs[u]
  BY <1>1, <1>2
<1>4. \A i \in DOMAIN toPage : i \in DOMAIN toPage'
  <2>1. DOMAIN toPage = 1 .. Len(toPage) /\ DOMAIN toPage' = 1 .. Len(toPage') /\ Len(toPage) \in Nat /\ Len(toPage') \in Nat
    BY <1>1, <1>2
  <2> QED BY <1>1, <2>1
<1> QED BY <1>1, <1>3, <1>4

\* A step of the worker keeps the types.
LEMMA WorkerTypes ==
  ASSUME ControlOK, JobsOK, NEW t \in Tasks, NEW done \in JobType, Posted(t, done),
         outcome' = outcome, client' = client, toWorker' \in Seq(CommandType), errors' = errors, failures' \in Nat
  PROVE  ControlOK' /\ JobsOK'
BY PostedFacts DEF ControlOK, JobsOK

\* A step on a command the worker has answers it once.
LEMMA GoesOnOne ==
  ASSUME ControlOK, JobsOK, OneInv, NEW t \in Tasks, GoesOn(t),
         client' = client, toWorker' = toWorker, errors' = errors
  PROVE  OneInv'
<1> SUFFICES ASSUME errors = 0
             PROVE  /\ \A i \in DOMAIN toPage' : toPage'[i].is # "error"
                    /\ ~client.working => Idle'
                    /\ client.working => Sending' \/ Working' \/ Answered'
  BY DEF OneInv
<1>1. PICK done \in JobType :
        done.id = jobs[t].id /\ done.page = jobs[t].page /\ done.answered = jobs[t].answered /\ Posted(t, done)
  BY DEF GoesOn
<1>2. /\ \A u \in Tasks : u # t => jobs'[u] = jobs[u]
      /\ done.answered => jobs'[t].answered
      /\ \A i \in DOMAIN toPage : i \in DOMAIN toPage' /\ toPage'[i] = toPage[i]
      /\ \A i \in DOMAIN toPage' :
           \/ i \in DOMAIN toPage /\ toPage'[i] = toPage[i]
           \/ i \notin DOMAIN toPage /\ toPage'[i].is = "progress"
           \/ /\ i \notin DOMAIN toPage /\ i = Len(toPage') /\ jobs'[t].answered /\ ~done.answered
              /\ IsReply(toPage'[i], t, done)
      /\ jobs'[t].answered /\ ~done.answered =>
           /\ Len(toPage') \in DOMAIN toPage' /\ Len(toPage') \notin DOMAIN toPage
           /\ IsReply(toPage'[Len(toPage')], t, done)
  BY <1>1, PostedFacts
<1>3. /\ \A i \in DOMAIN toPage : toPage[i].is # "error"
      /\ ~client.working => Idle
      /\ client.working => Sending \/ Working \/ Answered
  BY DEF OneInv
<1>4. \A i \in DOMAIN toPage' : toPage'[i].is # "error"
  BY <1>2, <1>3 DEF IsReply, IsAnswer
<1>5. jobs'[t].answered \in BOOLEAN /\ jobs[t].answered \in BOOLEAN
  <2>1. jobs' \in [Tasks -> JobType]
    BY <1>1, PostedFacts
  <2> QED BY <2>1 DEF JobsOK, JobType
\* A command answered before tells only of its progress.
<1>6. CASE jobs[t].answered
  <2>1. \A u \in Tasks : jobs'[u].answered <=> jobs[u].answered
    BY <1>1, <1>2, <1>6
  <2>2. /\ \A i \in DOMAIN toPage : i \in DOMAIN toPage' /\ toPage'[i] = toPage[i]
        /\ \A i \in DOMAIN toPage' : IsAnswer(toPage'[i]) => i \in DOMAIN toPage
    BY <1>1, <1>2, <1>6 DEF IsAnswer
  <2>3. (AllAnswered => AllAnswered') /\ (NoAnswer => NoAnswer')
    BY <2>1, <2>2 DEF AllAnswered, NoAnswer
  <2>4. Idle => Idle'
    BY <2>3 DEF Idle
  <2>5. Sending => Sending'
    BY <2>3 DEF Sending
  <2>6. Working => Working'
    BY <2>1, <2>3 DEF Working
  <2>7. Answered => Answered'
    <3> SUFFICES ASSUME Answered PROVE Answered'
      OBVIOUS
    <3>1. PICK i \in DOMAIN toPage : \A j \in DOMAIN toPage : IsAnswer(toPage[j]) <=> j = i
      BY DEF Answered
    <3>2. i \in DOMAIN toPage' /\ \A j \in DOMAIN toPage' : IsAnswer(toPage'[j]) <=> j = i
      BY <2>2, <3>1
    <3> QED BY <2>3, <3>2 DEF Answered
  <2> QED BY <1>3, <1>4, <2>4, <2>5, <2>6, <2>7
\* The command at work goes on, or is answered.
<1>7. CASE ~jobs[t].answered
  <2>1. ~AllAnswered
    BY <1>7 DEF AllAnswered
  <2>2. client.working /\ Working
    BY <1>3, <2>1 DEF Idle, Sending, Answered
  <2>3. \A u \in Tasks : jobs[u].answered <=> u # t
    BY <1>7, <2>2 DEF Working
  <2>4. CASE ~jobs'[t].answered
    <3>1. \A u \in Tasks : jobs'[u].answered <=> u # t
      BY <1>2, <2>3, <2>4
    <3>2. NoAnswer'
      BY <1>2, <2>2, <2>4 DEF NoAnswer, Working, IsAnswer
    <3>3. Working'
      BY <2>2, <3>1, <3>2 DEF Working
    <3> QED BY <1>4, <2>2, <3>3
  <2>5. CASE jobs'[t].answered
    <3>1. AllAnswered'
      BY <1>2, <2>3, <2>5 DEF AllAnswered
    <3> DEFINE len == Len(toPage')
    <3>2. ~done.answered
      BY <1>1, <1>5, <1>7
    <3>3. len \in DOMAIN toPage' /\ len \notin DOMAIN toPage
      BY <1>2, <2>5, <3>2
    <3>4. IsAnswer(toPage'[len])
      BY <1>2, <2>5, <3>2 DEF IsReply
    <3>5. \A j \in DOMAIN toPage' : IsAnswer(toPage'[j]) <=> j = len
      BY <1>2, <2>2, <3>4 DEF Working, NoAnswer, IsAnswer
    <3>6. Answered'
      BY <2>2, <3>1, <3>3, <3>5 DEF Answered, Working
    <3> QED BY <1>4, <2>2, <3>6
  <2> QED BY <2>4, <2>5
<1> QED BY <1>6, <1>7

-----------------------------------------------------------------------------
(* The page's steps. *)

SendsNext(c, next) ==
  /\ next.working /\ next.queue = Tail(c.queue) /\ next.current = Head(c.queue)[1]
  /\ next.id = c.counter /\ next.counter = c.counter + 1
SendsNothing(c, next) ==
  /\ next.working = c.working /\ next.queue = c.queue /\ next.counter = c.counter
  /\ \/ next.current = c.current /\ next.id = c.id
     \/ next.current = NoTask /\ next.id = NoId

\* The current promise dropped.
LEMMA DropFacts ==
  ASSUME NEW c \in ClientType
  PROVE  DropCurrent(c) \in ClientType /\ SendsNothing(c, DropCurrent(c))
         /\ DropCurrent(c).current = NoTask /\ DropCurrent(c).id = NoId
BY DEF DropCurrent, ClientType, SendsNothing, Taskless, NoId

\* The types of the fields of the page's client.
LEMMA QueueFacts ==
  ASSUME NEW c \in ClientType
  PROVE  /\ c.queue \in Seq(Tasks \X Commands) /\ DOMAIN c.queue = 1 .. Len(c.queue) /\ Len(c.queue) \in Nat
         /\ \A i \in DOMAIN c.queue : c.queue[i] \in Tasks \X Commands
         /\ c.current \in Taskless /\ c.id \in Nat /\ c.counter \in Nat /\ c.working \in BOOLEAN
         /\ c.hyper \in SUBSET Tasks
<1>1. c.queue \in Seq(Tasks \X Commands)
  BY DEF ClientType
<1> DEFINE q == c.queue
<1> HIDE DEF q
<1>2. q \in Seq(Tasks \X Commands)
  BY <1>1 DEF q
<1>3. DOMAIN q = 1 .. Len(q) /\ Len(q) \in Nat /\ \A i \in DOMAIN q : q[i] \in Tasks \X Commands
  BY <1>2
<1> QED BY <1>2, <1>3 DEF q, ClientType

\* runNextTask sends the head of the queue or nothing.
LEMMA GoOnFacts ==
  ASSUME ControlOK, NEW c \in ClientType, GoOnWith(c)
  PROVE  /\ client' \in ClientType /\ toWorker' \in Seq(CommandType)
         /\ Sends(c) => /\ SendsNext(c, client') /\ ~c.working /\ c.queue # << >>
                        /\ Sent(c) \in CommandType /\ toWorker' = Append(toWorker, Sent(c))
                        /\ Sent(c).task = Head(c.queue)[1] /\ Sent(c).id = c.counter
         /\ ~Sends(c) => SendsNothing(c, client') /\ toWorker' = toWorker
<1>1. toWorker \in Seq(CommandType)
  BY DEF ControlOK
<1>2. client' = RunNext(c) /\ toWorker' = IF Sends(c) THEN Append(toWorker, Sent(c)) ELSE toWorker
  BY DEF GoOnWith
<1>3. CASE ~Sends(c)
  <2>1. client' = c \/ client' = DropCurrent(c)
    BY <1>2, <1>3 DEF RunNext, Sends
  <2>2. client' \in ClientType /\ SendsNothing(c, client')
    BY <2>1, DropFacts DEF SendsNothing
  <2> QED BY <1>1, <1>2, <1>3, <2>2
<1>4. CASE Sends(c)
  <2>1. ~c.working /\ c.queue # << >>
    BY <1>4 DEF Sends
  <2> DEFINE head == Head(c.queue)
             tail == Tail(c.queue)
             t == head[1]
             hyper == IF IsBundling(head[2]) THEN c.hyper \union {head[1]} ELSE c.hyper
             next == [c EXCEPT !.queue = tail, !.current = t, !.id = c.counter, !.counter = c.counter + 1,
                               !.working = TRUE, !.hyper = hyper]
  <2>2. c.queue \in Seq(Tasks \X Commands) /\ c.counter \in Nat /\ c.hyper \in SUBSET Tasks
    BY QueueFacts
  <2>3. head \in Tasks \X Commands /\ tail \in Seq(Tasks \X Commands)
    BY <2>1, <2>2
  <2>4. t \in Tasks /\ head[2] \in Commands
    BY <2>3
  <2>5. hyper \in SUBSET Tasks
    BY <2>2, <2>4
  <2>6. RunNext(c) = next
    BY <2>1 DEF RunNext
  <2>7. Sent(c) = [task |-> t, id |-> c.counter, command |-> head[2]]
    BY DEF Sent
  <2>8. Sent(c) \in CommandType /\ Sent(c).task = t /\ Sent(c).id = c.counter
    BY <2>2, <2>4, <2>7 DEF CommandType
  <2>11. t = Head(c.queue)[1] /\ tail = Tail(c.queue)
    OBVIOUS
  <2> DEFINE n == c.counter
             m == c.counter + 1
  <2>12. m \in Nat /\ n \in Nat /\ t \in Taskless
    BY <2>2, <2>4 DEF Taskless
  <2>13. next = [c EXCEPT !.queue = tail, !.current = t, !.id = n, !.counter = m, !.working = TRUE, !.hyper = hyper]
    OBVIOUS
  <2> HIDE DEF head, tail, t, hyper, n, m, next
  <2>9. /\ next \in ClientType /\ next.working /\ next.queue = tail /\ next.current = t
        /\ next.id = c.counter /\ next.counter = c.counter + 1
    <3>1. /\ next \in ClientType /\ next.working /\ next.queue = tail /\ next.current = t
          /\ next.id = n /\ next.counter = m
      BY <2>3, <2>5, <2>12, <2>13 DEF ClientType
    <3> QED BY <3>1 DEF n, m
  <2>10. toWorker' = Append(toWorker, Sent(c)) /\ toWorker' \in Seq(CommandType)
    BY <1>1, <1>2, <1>4, <2>8
  <2> QED BY <1>2, <1>4, <2>1, <2>6, <2>8, <2>9, <2>10, <2>11 DEF SendsNext
<1> QED BY <1>3, <1>4

MoreQueued(c, t, command) == [c EXCEPT !.queue = Append(@, <<t, command>>)]

\* An open promise.
LEMMA OpenType == Open \in OutcomeType
BY DEF Open, OutcomeType, Taskless, GivenType

\* Asking keeps the types.
LEMMA AskTypes ==
  ASSUME ControlOK, NEW t \in Tasks, NEW command \in Commands, Ask(t, command)
  PROVE  LET c == MoreQueued(client, t, command) IN
         /\ ControlOK' /\ c \in ClientType /\ GoOnWith(c)
         /\ c.queue = Append(client.queue, <<t, command>>) /\ c.working = client.working
         /\ c.current = client.current /\ c.id = client.id /\ c.counter = client.counter
         /\ outcome' = [outcome EXCEPT ![t] = Open]
<1> DEFINE c == MoreQueued(client, t, command)
           queue == Append(client.queue, <<t, command>>)
<1>1. client \in ClientType
  BY DEF ControlOK
<1>2. queue \in Seq(Tasks \X Commands)
  BY <1>1, QueueFacts
<1>3. c = [client EXCEPT !.queue = queue]
  BY DEF MoreQueued
<1> HIDE DEF queue
<1>4. /\ c \in ClientType /\ c.queue = queue /\ c.working = client.working
      /\ c.current = client.current /\ c.id = client.id /\ c.counter = client.counter
  BY <1>1, <1>2, <1>3 DEF ClientType
<1>5. GoOnWith(c)
  BY DEF Ask, MoreQueued
<1> HIDE DEF c
<1>6. client' \in ClientType /\ toWorker' \in Seq(CommandType)
  BY <1>4, <1>5, GoOnFacts
<1>7. outcome' = [outcome EXCEPT ![t] = Open] /\ toPage' = toPage /\ failures' = failures /\ errors' = errors
  BY Zenon DEF Ask
<1>8. ControlOK'
  BY <1>6, <1>7, OpenType DEF ControlOK
<1> QED BY <1>4, <1>5, <1>7, <1>8 DEF c, queue

\* The page gives up commands: of the queue only some are left, and the current one may be dropped.
Loses(c, next, left) ==
  /\ next \in ClientType /\ next.working = c.working /\ next.counter = c.counter
  /\ \/ next.current = c.current /\ next.id = c.id
     \/ next.current = NoTask /\ next.id = NoId
  /\ left \in [DOMAIN next.queue -> DOMAIN c.queue]
  /\ \A i, j \in DOMAIN next.queue : left[i] = left[j] => i = j
  /\ \A i \in DOMAIN next.queue : next.queue[i] = c.queue[left[i]]

\* A queue with one item removed.
LEMMA RemoveFacts ==
  ASSUME NEW S, NEW s \in Seq(S), NEW i \in DOMAIN s
  PROVE  LET r == RemoveAt(s, i)
             left == [j \in DOMAIN r |-> IF j < i THEN j ELSE j + 1]
         IN  /\ r \in Seq(S) /\ left \in [DOMAIN r -> DOMAIN s]
             /\ \A j, k \in DOMAIN r : left[j] = left[k] => j = k
             /\ \A j \in DOMAIN r : r[j] = s[left[j]] /\ left[j] # i
<1> DEFINE r == RemoveAt(s, i)
           n == Len(s)
           a == SubSeq(s, 1, i - 1)
           b == SubSeq(s, i + 1, n)
<1>1. n \in Nat /\ i \in 1 .. n /\ DOMAIN s = 1 .. n
  OBVIOUS
<1>2. /\ a \in Seq(S) /\ Len(a) = i - 1 /\ \A j \in 1 .. (i - 1) : a[j] = s[j]
  BY <1>1
<1>3. /\ b \in Seq(S) /\ Len(b) = n - i /\ \A j \in 1 .. (n - i) : b[j] = s[i + j]
  <2>1. b \in Seq(S) /\ Len(b) = n - i
    BY <1>1
  <2>2. ASSUME NEW j \in 1 .. (n - i) PROVE b[j] = s[i + j]
    <3> DEFINE m == i + 1
               k == m + j - 1
    <3>0. n \in Nat /\ n = Len(s) /\ i \in Nat /\ j \in Nat /\ j <= n - i /\ 1 <= j
      BY <1>1, <2>2
    <3>1. m \in Nat /\ k = i + j /\ k \in Nat /\ n \in Nat /\ n = Len(s) /\ j \in 1 .. (n - m + 1)
      <4>1. m \in Nat /\ n - m + 1 = n - i
        BY <3>0
      <4>2. k = i + j /\ k \in Nat
        BY <3>0
      <4> QED BY <3>0, <4>1, <4>2
    <3>2. b = SubSeq(s, m, n)
      OBVIOUS
    <3> HIDE DEF b, n, m
    <3>3. SubSeq(s, m, n)[j] = s[k]
      BY <3>1
    <3> QED BY <3>1, <3>2, <3>3
  <2> QED BY <2>1, <2>2
<1>4. r = a \o b
  BY DEF RemoveAt
<1> HIDE DEF a, b, n, r
<1>5. /\ r \in Seq(S) /\ Len(r) = n - 1 /\ DOMAIN r = 1 .. (n - 1)
      /\ \A j \in 1 .. (i - 1) : r[j] = a[j]
      /\ \A j \in i .. (n - 1) : r[j] = b[j - (i - 1)]
  <2>1. /\ r \in Seq(S) /\ Len(r) = Len(a) + Len(b) /\ DOMAIN r = 1 .. Len(r)
        /\ \A j \in 1 .. Len(a) : r[j] = a[j]
        /\ \A j \in (Len(a) + 1) .. (Len(a) + Len(b)) : r[j] = b[j - Len(a)]
    BY <1>2, <1>3, <1>4, SMTT(30)
  <2>2. Len(r) = n - 1 /\ Len(a) + Len(b) = n - 1 /\ Len(a) + 1 = i
    BY <1>1, <1>2, <1>3, <2>1
  <2> QED BY <1>2, <2>1, <2>2
<1>6. \A j \in i .. (n - 1) : r[j] = s[j + 1]
  <2> TAKE j \in i .. (n - 1)
  <2> DEFINE k == j - (i - 1)
  <2>1. k \in 1 .. (n - i) /\ i + k = j + 1
    BY <1>1
  <2>2. r[j] = b[k]
    BY <1>5
  <2> HIDE DEF k
  <2> QED BY <1>3, <2>1, <2>2
<1>7. \A j \in 1 .. (i - 1) : r[j] = s[j]
  BY <1>2, <1>5
<1> DEFINE left == [j \in DOMAIN r |-> IF j < i THEN j ELSE j + 1]
<1>8. \A j \in DOMAIN r : left[j] \in DOMAIN s /\ left[j] # i
  BY <1>1, <1>5
<1>9. \A j, k \in DOMAIN r : left[j] = left[k] => j = k
  BY <1>1, <1>5
<1>10. ASSUME NEW j \in DOMAIN r PROVE r[j] = s[left[j]]
  <2>1. CASE j < i
    BY <1>1, <1>5, <1>7, <2>1
  <2>2. CASE ~(j < i)
    BY <1>1, <1>5, <1>6, <2>2
  <2> QED BY <2>1, <2>2
<1>11. left \in [DOMAIN r -> DOMAIN s]
  BY <1>8
<1> QED BY <1>5, <1>8, <1>9, <1>10, <1>11 DEF r

Queueing(c, queue) == [c EXCEPT !.queue = queue]

\* The client with another queue.
LEMMA QueueingFacts ==
  ASSUME NEW c \in ClientType, NEW queue \in Seq(Tasks \X Commands)
  PROVE  LET next == Queueing(c, queue) IN
         /\ next \in ClientType /\ next.queue = queue /\ next.working = c.working
         /\ next.current = c.current /\ next.id = c.id /\ next.counter = c.counter
BY DEF Queueing, ClientType

\* Abandoning promises cancels them and no other.
LEMMA AbandonFacts ==
  ASSUME ControlOK, NEW ts \in SUBSET Tasks, Abandon(ts)
  PROVE  /\ outcome' \in [Tasks -> OutcomeType]
         /\ \A t \in Tasks : t \notin ts => outcome'[t] = outcome[t]
         /\ \A t \in ts : outcome'[t].is = "cancelled"
<1> DEFINE Given1(t) == [outcome[t] EXCEPT !.is = "cancelled"]
<1>1. outcome \in [Tasks -> OutcomeType]
  BY DEF ControlOK
<1>2. ASSUME NEW t \in Tasks PROVE Given1(t) \in OutcomeType /\ Given1(t).is = "cancelled"
  <2> DEFINE was == outcome[t]
  <2>1. was \in OutcomeType
    BY <1>1
  <2> HIDE DEF was
  <2>2. [was EXCEPT !.is = "cancelled"] \in OutcomeType /\ [was EXCEPT !.is = "cancelled"].is = "cancelled"
    BY <2>1 DEF OutcomeType
  <2> QED BY <2>2 DEF was
<1>3. outcome' = [t \in Tasks |-> IF t \in ts THEN Given1(t) ELSE outcome[t]]
  BY DEF Abandon
<1> HIDE DEF Given1
<1> QED BY <1>1, <1>2, <1>3

\* A step by which the page gives up the promises ts.
GivesUp(ts) ==
  /\ ts \in SUBSET Tasks /\ \A t \in ts : t \in Queued(client) \/ t = client.current
  /\ Abandon(ts)
  /\ \E left : /\ Loses(client, client', left)
               /\ \A i \in DOMAIN client'.queue : client.queue[left[i]][1] \notin ts
  /\ toWorker' = toWorker /\ toPage' = toPage /\ jobs' = jobs /\ doc' = doc
  /\ failures' = failures /\ errors' = errors

\* Giving up keeps the types.
LEMMA GivesUpTypes ==
  ASSUME ControlOK, NEW ts, GivesUp(ts)
  PROVE  ControlOK'
<1>1. outcome' \in [Tasks -> OutcomeType]
  BY AbandonFacts DEF GivesUp
<1> QED BY <1>1 DEF GivesUp, Loses, ControlOK

\* cancelTask gives up the one promise,
LEMMA CancelGivesUp ==
  ASSUME ControlOK, QueueOwn(client, outcome), NEW t \in Tasks, Cancel(t)
  PROVE  GivesUp({t})
<1> DEFINE q == client.queue
<1>1. client \in ClientType /\ q \in Seq(Tasks \X Commands)
  BY QueueFacts DEF ControlOK
<1>2. /\ Abandon({t}) /\ toWorker' = toWorker /\ toPage' = toPage /\ jobs' = jobs /\ doc' = doc
      /\ failures' = failures /\ errors' = errors
  BY Zenon DEF Cancel
<1>3. \A i, j \in DOMAIN q : q[i][1] = q[j][1] => i = j
  BY DEF QueueOwn
<1>4. ASSUME NEW i \in DOMAIN q, q[i][1] = t, client' = Queueing(client, RemoveAt(q, i)) PROVE GivesUp({t})
  <2> DEFINE r == RemoveAt(q, i)
             left == [j \in DOMAIN r |-> IF j < i THEN j ELSE j + 1]
  <2> HIDE DEF q
  <2>1. /\ r \in Seq(Tasks \X Commands) /\ left \in [DOMAIN r -> DOMAIN q]
        /\ \A j, k \in DOMAIN r : left[j] = left[k] => j = k
        /\ \A j \in DOMAIN r : r[j] = q[left[j]] /\ left[j] # i
    BY <1>1, RemoveFacts
  <2>2. client' = Queueing(client, r)
    BY <1>4
  <2> HIDE DEF r, left
  <2>3. /\ client' \in ClientType /\ client'.queue = r /\ client'.working = client.working
        /\ client'.current = client.current /\ client'.id = client.id /\ client'.counter = client.counter
    BY <1>1, <2>1, <2>2, QueueingFacts
  <2>4. Loses(client, client', left)
    BY <2>1, <2>3 DEF Loses, q
  <2>5. \A j \in DOMAIN client'.queue : client.queue[left[j]][1] # t
    BY <1>3, <1>4, <2>1, <2>3 DEF q
  <2>6. t \in Queued(client)
    BY <1>4 DEF Queued, q
  <2> QED BY <1>2, <2>4, <2>5, <2>6 DEF GivesUp
<1>5. ASSUME t \notin Queued(client), client.current = t, client' = Dropped(client) PROVE GivesUp({t})
  <2> DEFINE left == [i \in DOMAIN q |-> i]
  <2>1. client' \in ClientType /\ SendsNothing(client, client')
    BY <1>1, <1>5, DropFacts DEF Dropped
  <2>2. Loses(client, client', left)
    BY <2>1 DEF Loses, SendsNothing
  <2>3. \A i \in DOMAIN client'.queue : client.queue[left[i]][1] # t
    BY <1>5, <2>1 DEF Queued, SendsNothing
  <2> HIDE DEF left
  <2> QED BY <1>2, <1>5, <2>2, <2>3 DEF GivesUp
<1>6. \/ \E i \in DOMAIN q : q[i][1] = t /\ client' = Queueing(client, RemoveAt(q, i))
      \/ t \notin Queued(client) /\ client.current = t /\ client' = Dropped(client)
  BY Zenon DEF Cancel, Queueing
<1> QED BY <1>4, <1>5, <1>6, Zenon

\* (the queued promises are promises)
LEMMA QueuedType ==
  ASSUME ControlOK PROVE Queued(client) \in SUBSET Tasks
<1>1. client \in ClientType
  BY DEF ControlOK
<1>2. \A i \in DOMAIN client.queue : client.queue[i] \in Tasks \X Commands
  BY <1>1, QueueFacts
<1> QED BY <1>2 DEF Queued

\* emptyTaskQueue those in the queue
LEMMA EmptyGivesUp ==
  ASSUME ControlOK, EmptyTaskQueue
  PROVE  GivesUp(Queued(client))
<1>1. client \in ClientType
  BY DEF ControlOK
<1>2. client' = Queueing(client, << >>)
  BY DEF EmptyTaskQueue, Queueing
<1>3. /\ client' \in ClientType /\ client'.queue = << >> /\ client'.working = client.working
      /\ client'.current = client.current /\ client'.id = client.id /\ client'.counter = client.counter
  <2>1. << >> \in Seq(Tasks \X Commands)
    OBVIOUS
  <2> QED BY <1>1, <1>2, <2>1, QueueingFacts
<1>4. Loses(client, client', << >>)
  BY <1>3 DEF Loses
<1>5. /\ Abandon(Queued(client)) /\ toWorker' = toWorker /\ toPage' = toPage /\ jobs' = jobs /\ doc' = doc
      /\ failures' = failures /\ errors' = errors
  BY Zenon DEF EmptyTaskQueue
<1> QED BY <1>3, <1>4, <1>5, QueuedType DEF GivesUp

\* and cancelAllTasks the one at work too.
LEMMA CancelAllGivesUp ==
  ASSUME ControlOK, CancelAllTasks
  PROVE  GivesUp(Queued(client) \union {client.current})
<1>1. client \in ClientType
  BY DEF ControlOK
<1> DEFINE c == Queueing(client, << >>)
<1>2. client' = DropCurrent(c) /\ client.current # NoTask
  BY DEF CancelAllTasks, Queueing, Dropped
<1>3. /\ c \in ClientType /\ c.queue = << >> /\ c.working = client.working
      /\ c.current = client.current /\ c.id = client.id /\ c.counter = client.counter
  <2>1. << >> \in Seq(Tasks \X Commands)
    OBVIOUS
  <2> QED BY <1>1, <2>1, QueueingFacts
<1> HIDE DEF c
<1>4. client' \in ClientType /\ SendsNothing(c, client') /\ client'.current = NoTask /\ client'.id = NoId
  BY <1>2, <1>3, DropFacts
<1>5. client'.queue = << >> /\ Loses(client, client', << >>)
  BY <1>3, <1>4 DEF Loses, SendsNothing
<1>6. /\ Abandon(Queued(client) \union {client.current})
      /\ toWorker' = toWorker /\ toPage' = toPage /\ jobs' = jobs /\ doc' = doc
      /\ failures' = failures /\ errors' = errors
  BY Zenon DEF CancelAllTasks
<1>7. client.current \in Tasks
  BY <1>1, <1>2, QueueFacts DEF Taskless
<1> QED BY <1>5, <1>6, <1>7, QueuedType DEF GivesUp

\* The head and the tail of a sequence.
LEMMA HeadTail ==
  ASSUME NEW S, NEW s \in Seq(S), s # << >>
  PROVE  /\ Head(s) \in S /\ Head(s) = s[1] /\ Tail(s) \in Seq(S) /\ 1 \in DOMAIN s
         /\ Len(s) \in Nat /\ Len(s) >= 1 /\ Len(Tail(s)) = Len(s) - 1
         /\ \A i \in DOMAIN Tail(s) : i + 1 \in DOMAIN s /\ i + 1 # 1 /\ Tail(s)[i] = s[i + 1]
         /\ \A i \in DOMAIN s : i # 1 => i - 1 \in DOMAIN Tail(s) /\ Tail(s)[i - 1] = s[i]
OBVIOUS

\* The page's object once it has an answer, and the steps that follow.
Rested(c) == [c EXCEPT !.working = FALSE]

\* The client that no longer works.
LEMMA RestedFacts ==
  ASSUME NEW c \in ClientType
  PROVE  /\ Rested(c) \in ClientType /\ Rested(c).working = FALSE /\ Rested(c).queue = c.queue
         /\ Rested(c).current = c.current /\ Rested(c).id = c.id /\ Rested(c).counter = c.counter
BY DEF Rested, ClientType

\* The client without a callback.
LEMMA UnregisteredFacts ==
  ASSUME NEW c \in ClientType, NEW message
  PROVE  /\ Unregistered(c, message) \in ClientType /\ Unregistered(c, message).working = c.working
         /\ Unregistered(c, message).queue = c.queue
         /\ Unregistered(c, message).current = c.current /\ Unregistered(c, message).id = c.id
         /\ Unregistered(c, message).counter = c.counter
<1> DEFINE hyper == c.hyper \ {message.of}
<1>1. hyper \in SUBSET Tasks
  BY QueueFacts
<1>2. Unregistered(c, message) = [c EXCEPT !.hyper = hyper]
  BY DEF Unregistered
<1> HIDE DEF hyper
<1> QED BY <1>1, <1>2 DEF ClientType

\* A step by which the page takes the first message: it settles the promise at work, or goes on,
\* or only rests.
Settles(message) ==
  /\ IsExpected(message) /\ client.current # NoTask
  /\ \E c \in ClientType :
       /\ c.working = FALSE /\ c.queue = client.queue /\ c.current = client.current
       /\ c.id = client.id /\ c.counter = client.counter
       /\ GoOnWith(c)
  /\ outcome' = [outcome EXCEPT ![client.current] = [is |-> message.is, of |-> message.of, got |-> message.got]]
GoesOnWith(message) ==
  /\ (IsExpected(message) /\ client.current = NoTask) \/ (~IsExpected(message) /\ message.is = "error")
  /\ GoOnWith(Rested(client)) /\ outcome' = outcome
Rests(message) ==
  /\ ~IsExpected(message) /\ message.is # "error"
  /\ client' = Rested(client) /\ toWorker' = toWorker /\ outcome' = outcome

\* An answer settles the promise at work, only goes on, or is ignored.
LEMMA AnswerFacts ==
  ASSUME ControlOK, HandleAnswer
  PROVE  LET message == Head(toPage) IN
         /\ toPage # << >> /\ message.is \in {"resolved", "failed", "error"} /\ message \in MessageType
         /\ toPage' = Tail(toPage)
         /\ Settles(message) \/ GoesOnWith(message) \/ Rests(message)
         /\ jobs' = jobs /\ doc' = doc /\ failures' = failures /\ errors' = errors
<1> DEFINE message == Head(toPage)
           idle == Rested(client)
<1>1. client \in ClientType /\ toPage \in Seq(MessageType)
  BY DEF ControlOK
<1>2. /\ toPage # << >> /\ message.is \in {"resolved", "failed", "error"}
      /\ toPage' = Tail(toPage)
      /\ jobs' = jobs /\ doc' = doc /\ failures' = failures /\ errors' = errors
  BY Zenon DEF HandleAnswer
<1>3. message \in MessageType
  BY <1>1, <1>2
<1>4. \/ /\ IsExpected(message) /\ client.current # NoTask
         /\ GoOnWith(Unregistered(idle, message))
         /\ outcome' = [outcome EXCEPT ![client.current] = [is |-> message.is, of |-> message.of, got |-> message.got]]
      \/ IsExpected(message) /\ client.current = NoTask /\ GoOnWith(idle) /\ outcome' = outcome
      \/ ~IsExpected(message) /\ message.is = "error" /\ GoOnWith(idle) /\ outcome' = outcome
      \/ ~IsExpected(message) /\ message.is # "error" /\ client' = idle /\ toWorker' = toWorker /\ outcome' = outcome
  BY Zenon DEF HandleAnswer, Rested
<1>5. /\ idle \in ClientType /\ idle.working = FALSE /\ idle.queue = client.queue
      /\ idle.current = client.current /\ idle.id = client.id /\ idle.counter = client.counter
  BY <1>1, RestedFacts
<1> HIDE DEF message, idle
<1> DEFINE c == Unregistered(idle, message)
<1>6. /\ c \in ClientType /\ c.working = FALSE /\ c.queue = client.queue
      /\ c.current = client.current /\ c.id = client.id /\ c.counter = client.counter
  BY <1>5, UnregisteredFacts
<1> HIDE DEF c
<1>7. ASSUME IsExpected(message), client.current # NoTask, GoOnWith(c),
             outcome' = [outcome EXCEPT ![client.current] = [is |-> message.is, of |-> message.of, got |-> message.got]]
      PROVE  Settles(message)
  BY <1>6, <1>7, Zenon DEF Settles
<1>11. Settles(message) \/ GoesOnWith(message) \/ Rests(message)
  <2>1. CASE /\ IsExpected(message) /\ client.current # NoTask
             /\ GoOnWith(c)
             /\ outcome' = [outcome EXCEPT ![client.current] = [is |-> message.is, of |-> message.of, got |-> message.got]]
    BY <1>7, <2>1, Zenon
  <2>2. CASE IsExpected(message) /\ client.current = NoTask /\ GoOnWith(idle) /\ outcome' = outcome
    BY <2>2, Zenon DEF GoesOnWith, idle
  <2>3. CASE ~IsExpected(message) /\ message.is = "error" /\ GoOnWith(idle) /\ outcome' = outcome
    BY <2>3, Zenon DEF GoesOnWith, idle
  <2>4. CASE ~IsExpected(message) /\ message.is # "error" /\ client' = idle /\ toWorker' = toWorker /\ outcome' = outcome
    BY <2>4, Zenon DEF Rests, idle
  <2> QED BY <1>4, <2>1, <2>2, <2>3, <2>4, Zenon DEF c
<1> QED BY <1>2, <1>3, <1>11 DEF message

\* Handling an answer keeps the types;
LEMMA AnswerTypes ==
  ASSUME ControlOK, HandleAnswer
  PROVE  ControlOK'
<1> DEFINE message == Head(toPage)
<1>1. /\ toPage # << >> /\ message.is \in {"resolved", "failed", "error"} /\ message \in MessageType
      /\ toPage' = Tail(toPage)
      /\ Settles(message) \/ GoesOnWith(message) \/ Rests(message)
      /\ jobs' = jobs /\ doc' = doc /\ failures' = failures /\ errors' = errors
  BY AnswerFacts
<1>2. client \in ClientType /\ toPage \in Seq(MessageType) /\ Rested(client) \in ClientType
      /\ outcome \in [Tasks -> OutcomeType] /\ toWorker \in Seq(CommandType)
  BY RestedFacts DEF ControlOK
<1>3. toPage' \in Seq(MessageType)
  BY <1>1, <1>2
<1> HIDE DEF message
<1>4. CASE Settles(message)
  <2>1. client' \in ClientType /\ toWorker' \in Seq(CommandType)
    BY <1>4, GoOnFacts DEF Settles
  <2> DEFINE settled == [is |-> message.is, of |-> message.of, got |-> message.got]
  <2>2. settled \in OutcomeType
    BY <1>1 DEF MessageType, OutcomeType
  <2>3. outcome' = [outcome EXCEPT ![client.current] = settled]
    BY <1>4 DEF Settles
  <2> HIDE DEF settled
  <2>4. outcome' \in [Tasks -> OutcomeType]
    BY <1>2, <2>2, <2>3
  <2> QED BY <1>1, <1>3, <2>1, <2>4 DEF ControlOK
<1>5. CASE GoesOnWith(message)
  <2>1. client' \in ClientType /\ toWorker' \in Seq(CommandType)
    BY <1>2, <1>5, GoOnFacts DEF GoesOnWith
  <2> QED BY <1>1, <1>2, <1>3, <1>5, <2>1 DEF ControlOK, GoesOnWith
<1>6. CASE Rests(message)
  BY <1>1, <1>2, <1>3, <1>6 DEF ControlOK, Rests
<1> QED BY <1>1, <1>4, <1>5, <1>6

\* so does handling progress,
LEMMA ProgressTypes ==
  ASSUME ControlOK, HandleProgress
  PROVE  /\ ControlOK' /\ toPage # << >> /\ Head(toPage).is = "progress" /\ toPage' = Tail(toPage)
         /\ outcome' = outcome /\ client' = client /\ toWorker' = toWorker /\ jobs' = jobs /\ doc' = doc
         /\ errors' = errors
<1>1. /\ toPage # << >> /\ Head(toPage).is = "progress" /\ toPage' = Tail(toPage)
      /\ outcome' = outcome /\ client' = client /\ toWorker' = toWorker /\ jobs' = jobs /\ doc' = doc
      /\ failures' = failures /\ errors' = errors
  BY Zenon DEF HandleProgress
<1>2. toPage \in Seq(MessageType)
  BY DEF ControlOK
<1>3. toPage' \in Seq(MessageType)
  BY <1>1, <1>2
<1> QED BY <1>1, <1>3 DEF ControlOK

\* and an error of the worker.
LEMMA ErrorTypes ==
  ASSUME ControlOK, WorkerError
  PROVE  /\ ControlOK' /\ errors' # 0
         /\ toPage' = Append(toPage, Message("error", NoId, NoTask, << >>))
         /\ outcome' = outcome /\ client' = client /\ toWorker' = toWorker /\ jobs' = jobs /\ doc' = doc
<1>1. /\ errors' = errors + 1 /\ toPage' = Append(toPage, Message("error", NoId, NoTask, << >>))
      /\ outcome' = outcome /\ client' = client /\ toWorker' = toWorker /\ jobs' = jobs /\ doc' = doc
      /\ failures' = failures
  BY Zenon DEF WorkerError
<1>2. Message("error", NoId, NoTask, << >>) \in MessageType
  <2>1. << >> \in GivenType
    BY DEF GivenType
  <2> QED BY <2>1 DEF Message, MessageType, Taskless, NoId, NoTask
<1>3. errors \in Nat /\ toPage \in Seq(MessageType)
  BY DEF ControlOK
<1>4. toPage' \in Seq(MessageType) /\ errors' \in Nat /\ errors' # 0
  BY <1>1, <1>2, <1>3
<1> QED BY <1>1, <1>4 DEF ControlOK

-----------------------------------------------------------------------------
(* One command at a time. *)

\* Giving up leaves the worker its one command, and the client at work.
LEMMA GivesUpOne ==
  ASSUME OneInv, NEW ts, GivesUp(ts)
  PROVE  OneInv'
<1>1. client'.working = client.working /\ toWorker' = toWorker /\ toPage' = toPage /\ jobs' = jobs /\ errors' = errors
  BY DEF GivesUp, Loses
<1> QED BY <1>1 DEF OneInv, Idle, Sending, Working, Answered, AllAnswered, NoAnswer

\* A client with nothing at work sends at most one command.
LEMMA IdleGoesOn ==
  ASSUME ControlOK, NEW c \in ClientType, c.working = FALSE, GoOnWith(c), toWorker = << >>,
         AllAnswered', NoAnswer'
  PROVE  (~client'.working => Idle') /\ (client'.working => Sending')
<1>1. CASE Sends(c)
  <2>1. client'.working /\ toWorker' = Append(toWorker, Sent(c)) /\ Sent(c) \in CommandType
    BY <1>1, GoOnFacts DEF SendsNext
  <2>2. Len(toWorker') = 1
    BY <2>1
  <2> QED BY <2>1, <2>2 DEF Sending
<1>2. CASE ~Sends(c)
  <2>1. client'.working = FALSE /\ toWorker' = << >>
    BY <1>2, GoOnFacts DEF SendsNothing
  <2> QED BY <2>1 DEF Idle
<1> QED BY <1>1, <1>2

\* Asking sends a command only when none is at work;
LEMMA AskOne ==
  ASSUME ControlOK, OneInv, NEW t \in Tasks, NEW command \in Commands, Ask(t, command)
  PROVE  OneInv'
<1> DEFINE c == MoreQueued(client, t, command)
<1>1. c \in ClientType /\ GoOnWith(c) /\ c.working = client.working /\ client.working \in BOOLEAN
  BY AskTypes, QueueFacts DEF ControlOK
<1>2. toPage' = toPage /\ jobs' = jobs /\ errors' = errors
  BY Zenon DEF Ask
<1> HIDE DEF c
<1>3. CASE client.working
  <2>1. ~Sends(c)
    BY <1>1, <1>3 DEF Sends
  <2>2. client'.working = client.working /\ toWorker' = toWorker
    BY <1>1, <2>1, GoOnFacts DEF SendsNothing
  <2> QED BY <1>2, <2>2 DEF OneInv, Idle, Sending, Working, Answered, AllAnswered, NoAnswer
<1>4. CASE ~client.working
  <2> SUFFICES ASSUME errors = 0
               PROVE  /\ \A i \in DOMAIN toPage' : toPage'[i].is # "error"
                      /\ ~client'.working => Idle'
                      /\ client'.working => Sending' \/ Working' \/ Answered'
    BY <1>2 DEF OneInv
  <2>1. Idle /\ \A i \in DOMAIN toPage : toPage[i].is # "error"
    BY <1>4 DEF OneInv
  <2>2. AllAnswered' /\ NoAnswer' /\ toWorker = << >>
    BY <1>2, <2>1 DEF Idle, AllAnswered, NoAnswer
  <2>3. (~client'.working => Idle') /\ (client'.working => Sending')
    BY <1>1, <1>4, <2>2, IdleGoesOn
  <2> QED BY <1>2, <2>1, <2>3
<1> QED BY <1>3, <1>4

\* an answer is the one of the one command, so the next can be sent;
LEMMA AnswerOne ==
  ASSUME ControlOK, OneInv, HandleAnswer
  PROVE  OneInv'
<1> DEFINE message == Head(toPage)
<1>1. /\ toPage # << >> /\ message.is \in {"resolved", "failed", "error"} /\ message \in MessageType
      /\ toPage' = Tail(toPage)
      /\ Settles(message) \/ GoesOnWith(message) \/ Rests(message)
      /\ jobs' = jobs /\ errors' = errors
  BY AnswerFacts
<1> SUFFICES ASSUME errors = 0
             PROVE  /\ \A i \in DOMAIN toPage' : toPage'[i].is # "error"
                    /\ ~client'.working => Idle'
                    /\ client'.working => Sending' \/ Working' \/ Answered'
  BY <1>1 DEF OneInv
<1>2. /\ Head(toPage) = toPage[1] /\ 1 \in DOMAIN toPage
      /\ \A i \in DOMAIN Tail(toPage) : i + 1 \in DOMAIN toPage /\ i + 1 # 1 /\ Tail(toPage)[i] = toPage[i + 1]
  BY <1>1, HeadTail DEF ControlOK
<1>3. IsAnswer(toPage[1])
  BY <1>1, <1>2 DEF OneInv, IsAnswer
<1>4. client.working /\ Answered
  BY <1>2, <1>3 DEF OneInv, Idle, Sending, Working, NoAnswer
<1>5. \A j \in DOMAIN toPage : IsAnswer(toPage[j]) <=> j = 1
  BY <1>2, <1>3, <1>4 DEF Answered
<1>6. NoAnswer' /\ \A i \in DOMAIN toPage' : toPage'[i].is # "error"
  BY <1>1, <1>2, <1>5 DEF NoAnswer, OneInv
<1>7. AllAnswered' /\ toWorker = << >>
  BY <1>1, <1>4 DEF Answered, AllAnswered
<1>8. client \in ClientType /\ Rested(client) \in ClientType /\ Rested(client).working = FALSE
  BY RestedFacts DEF ControlOK
<1> HIDE DEF message
<1>9. CASE Settles(message)
  BY <1>6, <1>7, <1>9, IdleGoesOn DEF Settles
<1>10. CASE GoesOnWith(message)
  BY <1>6, <1>7, <1>8, <1>10, IdleGoesOn DEF GoesOnWith
<1>11. CASE Rests(message)
  BY <1>6, <1>7, <1>8, <1>11 DEF Rests, Idle
<1> QED BY <1>1, <1>9, <1>10, <1>11

\* progress changes nothing of that;
LEMMA ProgressOne ==
  ASSUME ControlOK, OneInv, HandleProgress
  PROVE  OneInv'
<1>1. /\ toPage # << >> /\ Head(toPage).is = "progress" /\ toPage' = Tail(toPage)
      /\ client' = client /\ toWorker' = toWorker /\ jobs' = jobs /\ errors' = errors
  BY ProgressTypes
<1>2. /\ Head(toPage) = toPage[1] /\ 1 \in DOMAIN toPage
      /\ \A i \in DOMAIN Tail(toPage) : i + 1 \in DOMAIN toPage /\ i + 1 # 1 /\ Tail(toPage)[i] = toPage[i + 1]
      /\ \A i \in DOMAIN toPage : i # 1 => i - 1 \in DOMAIN Tail(toPage) /\ Tail(toPage)[i - 1] = toPage[i]
  BY <1>1, HeadTail DEF ControlOK
<1>3. ~IsAnswer(toPage[1])
  BY <1>1, <1>2 DEF IsAnswer
<1>4. (NoAnswer => NoAnswer') /\ (AllAnswered <=> AllAnswered')
  BY <1>1, <1>2 DEF NoAnswer, AllAnswered
<1>5. Answered => Answered'
  <2> SUFFICES ASSUME Answered PROVE Answered'
    OBVIOUS
  <2>1. PICK i \in DOMAIN toPage : \A j \in DOMAIN toPage : IsAnswer(toPage[j]) <=> j = i
    BY DEF Answered
  <2> DEFINE k == i - 1
  <2>2. i # 1 /\ k \in DOMAIN toPage' /\ toPage'[k] = toPage[i]
    BY <1>1, <1>2, <1>3, <2>1
  <2>3. i \in Nat
    BY DEF ControlOK
  <2>4. \A j \in DOMAIN toPage' : IsAnswer(toPage'[j]) <=> j = k
    <3> TAKE j \in DOMAIN toPage'
    <3>1. j \in Nat
      <4>1. toPage' \in Seq(MessageType)
        BY ProgressTypes DEF ControlOK
      <4> QED BY <4>1
    <3>2. j + 1 \in DOMAIN toPage /\ toPage'[j] = toPage[j + 1]
      BY <1>1, <1>2
    <3>3. IsAnswer(toPage'[j]) <=> j + 1 = i
      BY <2>1, <3>2
    <3> QED BY <2>3, <3>1, <3>3
  <2> HIDE DEF k
  <2> QED BY <1>1, <1>4, <2>2, <2>4 DEF Answered
<1>6. /\ Idle => Idle'
      /\ Sending => Sending'
      /\ Working => Working'
  BY <1>1, <1>4 DEF Idle, Sending, Working
<1>7. errors = 0 => \A i \in DOMAIN toPage' : toPage'[i].is # "error"
  BY <1>1, <1>2 DEF OneInv
<1> QED BY <1>1, <1>5, <1>6, <1>7 DEF OneInv

\* a command received is the only one.
LEMMA ReceiveOne ==
  ASSUME TypeInv, OneInv, PagesOwn, Receive
  PROVE  OneInv' /\ ControlOK' /\ JobsOK'
<1> DEFINE sent == Head(toWorker)
           t == sent.task
<1>1. /\ toWorker # << >> /\ toWorker' = Tail(toWorker)
      /\ outcome' = outcome /\ client' = client /\ failures' = failures /\ errors' = errors
  BY Zenon DEF Receive
<1>2. ControlOK /\ JobsOK /\ toWorker \in Seq(CommandType)
  BY DEF TypeInv, ControlOK
<1>3. t \in Tasks /\ toWorker' \in Seq(CommandType) /\ Len(toWorker') = Len(toWorker) - 1
  <2>1. sent \in CommandType /\ Tail(toWorker) \in Seq(CommandType) /\ Len(Tail(toWorker)) = Len(toWorker) - 1
    BY <1>1, <1>2, HeadTail
  <2> QED BY <1>1, <2>1 DEF CommandType
<1>4. PICK done : Taken(sent, done)
  BY ReceiveFacts
<1>5. done \in JobType /\ Posted(t, done) /\ ~done.answered
  BY <1>4 DEF Taken
<1> HIDE DEF t, sent
<1>6. /\ \A u \in Tasks : u # t => jobs'[u] = jobs[u]
      /\ \A i \in DOMAIN toPage' :
           \/ i \in DOMAIN toPage /\ toPage'[i] = toPage[i]
           \/ i \notin DOMAIN toPage /\ toPage'[i].is = "progress"
           \/ /\ i \notin DOMAIN toPage /\ i = Len(toPage') /\ jobs'[t].answered /\ ~done.answered
              /\ IsReply(toPage'[i], t, done)
      /\ jobs'[t].answered /\ ~done.answered =>
           /\ Len(toPage') \in DOMAIN toPage' /\ Len(toPage') \notin DOMAIN toPage
           /\ IsReply(toPage'[Len(toPage')], t, done)
  BY <1>2, <1>3, <1>5, PostedFacts
<1>7. ControlOK' /\ JobsOK'
  <2>1. failures' \in Nat
    BY <1>1, <1>2 DEF ControlOK
  <2> QED BY <1>1, <1>2, <1>3, <1>5, <2>1, WorkerTypes
<1>8. OneInv'
  <2> SUFFICES ASSUME errors = 0
               PROVE  /\ \A i \in DOMAIN toPage' : toPage'[i].is # "error"
                      /\ client.working /\ (Working' \/ Answered')
    BY <1>1 DEF OneInv
  <2>1. client.working /\ Sending
    BY <1>1 DEF OneInv, Idle, Working, Answered
  <2>2. toWorker' = << >>
    <3>1. Len(toWorker') = 0
      BY <1>3, <2>1 DEF Sending
    <3> QED BY <1>3, <3>1
  <2>3. \A i \in DOMAIN toPage' : toPage'[i].is # "error"
    BY <1>6 DEF OneInv, IsReply, IsAnswer
  <2>4. CASE ~jobs'[t].answered
    <3>1. \A u \in Tasks : jobs'[u].answered <=> u # t
      BY <1>6, <2>1, <2>4 DEF Sending, AllAnswered
    <3>2. NoAnswer'
      BY <1>6, <2>1, <2>4 DEF Sending, NoAnswer, IsAnswer
    <3> QED BY <1>3, <2>1, <2>2, <2>3, <3>1, <3>2 DEF Working
  <2>5. CASE jobs'[t].answered
    <3> DEFINE len == Len(toPage')
    <3>1. AllAnswered'
      BY <1>6, <2>1, <2>5 DEF Sending, AllAnswered
    <3>2. len \in DOMAIN toPage' /\ len \notin DOMAIN toPage /\ IsAnswer(toPage'[len])
      BY <1>5, <1>6, <2>5 DEF IsReply
    <3>3. \A j \in DOMAIN toPage' : IsAnswer(toPage'[j]) <=> j = len
      BY <1>6, <2>1, <3>2 DEF Sending, NoAnswer, IsAnswer
    <3> HIDE DEF len
    <3>4. Answered'
      BY <2>2, <3>1, <3>2, <3>3 DEF Answered
    <3> QED BY <2>1, <2>3, <3>4
  <2> QED BY <2>4, <2>5
<1> QED BY <1>7, <1>8

-----------------------------------------------------------------------------
(* Whose command it is. *)

\* The page goes on with c, having settled its outcomes.
LEMMA GoOnOwn ==
  ASSUME ControlOK, JobsOK, NEW c \in ClientType, GoOnWith(c), jobs' = jobs, ClientOwn(c, outcome')
  PROVE  ClientOwn(client, outcome)'
<1> USE DEF ClientOwn
<1>1. CASE ~Sends(c)
  <2>1. SendsNothing(c, client') /\ toWorker' = toWorker
    BY <1>1, GoOnFacts
  <2>2. /\ client'.queue = c.queue /\ client'.counter = c.counter
        /\ \/ client'.current = c.current /\ client'.id = c.id
           \/ client'.current = NoTask /\ client'.id = NoId
    BY <2>1 DEF SendsNothing
  <2>3. QueueOwn(client, outcome)'
    <3>1. \A t \in Tasks : NotSent(c, t) => NotSent(client, t)'
      BY <2>1, <2>2 DEF NotSent, InTransit, NoTask, Tasks
    <3>2. \A i \in DOMAIN c.queue : c.queue[i][1] \in Tasks
      BY QueueFacts
    <3> QED BY <2>2, <3>1, <3>2 DEF QueueOwn
  <2>4. TransitOwn(client)' /\ JobsOwn(client)'
    BY <2>1, <2>2 DEF TransitOwn, JobsOwn
  <2>5. CurrentOwn(client)'
    BY <2>1, <2>2 DEF CurrentOwn, NoId
  <2> QED BY <2>3, <2>4, <2>5
<1>2. CASE Sends(c)
  <2> DEFINE h == Head(c.queue)[1]
             s == Sent(c)
             n == Len(toWorker)
  <2>1. /\ client'.queue = Tail(c.queue) /\ client'.current = h
        /\ client'.id = c.counter /\ client'.counter = c.counter + 1
        /\ c.queue # << >> /\ toWorker' = Append(toWorker, s) /\ s \in CommandType
        /\ s.task = h /\ s.id = c.counter
    BY <1>2, GoOnFacts DEF SendsNext
  <2>2. /\ c.queue \in Seq(Tasks \X Commands) /\ c.counter \in Nat
        /\ \A i \in DOMAIN c.queue : c.queue[i] \in Tasks \X Commands
    BY QueueFacts
  <2>3. /\ h = c.queue[1][1] /\ 1 \in DOMAIN c.queue /\ h \in Tasks
        /\ \A i \in DOMAIN client'.queue : /\ i + 1 \in DOMAIN c.queue /\ i + 1 # 1
                                           /\ client'.queue[i] = c.queue[i + 1]
    BY <2>1, <2>2, HeadTail
  <2>4. /\ toWorker \in Seq(CommandType) /\ n \in Nat /\ DOMAIN toWorker = 1 .. n
        /\ DOMAIN toWorker' = 1 .. (n + 1) /\ toWorker'[n + 1] = s
        /\ \A i \in 1 .. n : toWorker'[i] = toWorker[i]
    BY <2>1 DEF ControlOK
  <2>5. jobs[h].id = NoId /\ ~InTransit(h) /\ c.current # h /\ outcome'[h].is = "open"
    BY <2>3 DEF QueueOwn, NotSent
  <2> HIDE DEF h, s, n
  <2>6. \A t \in Tasks : t # h /\ NotSent(c, t) => NotSent(client, t)'
    <3> SUFFICES ASSUME NEW t \in Tasks, t # h, NotSent(c, t), NEW i \in DOMAIN toWorker', toWorker'[i].task = t PROVE FALSE
      BY <2>1 DEF NotSent, InTransit
    <3>1. i = n + 1 \/ i \in 1 .. n
      BY <2>4
    <3> QED BY <2>1, <2>4, <3>1 DEF NotSent, InTransit
  <2>7. QueueOwn(client, outcome)'
    <3>1. \A i, j \in DOMAIN client'.queue : client'.queue[i][1] = client'.queue[j][1] => i = j
      <4> TAKE i, j \in DOMAIN client'.queue
      <4>1. i \in Nat /\ j \in Nat
        <5>1. client' \in ClientType
          BY GoOnFacts
        <5>2. DOMAIN client'.queue = 1 .. Len(client'.queue) /\ Len(client'.queue) \in Nat
          BY <5>1, QueueFacts
        <5> QED BY <5>2
      <4>2. client'.queue[i][1] = client'.queue[j][1] => i + 1 = j + 1
        BY <2>3 DEF QueueOwn
      <4> QED BY <4>1, <4>2
    <3>2. \A t \in Tasks : outcome'[t].is = "unasked" => NotSent(client, t)'
      BY <2>5, <2>6 DEF QueueOwn
    <3>3. \A i \in DOMAIN client'.queue : outcome'[client'.queue[i][1]].is = "open" /\ NotSent(client, client.queue[i][1])'
      <4> TAKE i \in DOMAIN client'.queue
      <4>1. i + 1 \in DOMAIN c.queue /\ i + 1 # 1 /\ client'.queue[i] = c.queue[i + 1]
        BY <2>3
      <4>2. PICK t \in Tasks : t = client'.queue[i][1]
        BY <2>2, <4>1
      <4>3. t # h /\ NotSent(c, t) /\ outcome'[t].is = "open"
        BY <2>3, <4>1, <4>2 DEF QueueOwn
      <4>4. NotSent(client, t)'
        BY <2>6, <4>3
      <4>5. NotSent(client, client.queue[i][1])'
        BY <4>2, <4>4 DEF NotSent, InTransit
      <4> QED BY <4>2, <4>3, <4>5
    <3> QED BY <3>1, <3>2, <3>3 DEF QueueOwn
  <2>8. TransitOwn(client)'
    <3>1. /\ \A i \in 1 .. n : /\ toWorker[i].id > 0 /\ toWorker[i].id < c.counter /\ toWorker[i].id \in Nat
                               /\ jobs[toWorker[i].task].id = NoId /\ toWorker[i].task # h
                               /\ \A t \in Tasks : jobs[t].id # toWorker[i].id
      <4>1. \A i \in 1 .. n : toWorker[i] \in CommandType
        BY <2>4
      <4> QED BY <2>4, <2>5, <4>1 DEF TransitOwn, CommandType, InTransit
    <3>2. \A t \in Tasks : jobs[t].id < c.counter /\ jobs[t].id # c.counter
      <4>1. \A t \in Tasks : jobs[t].id \in Nat
        BY DEF JobsOK, JobType
      <4> QED BY <2>2, <4>1 DEF JobsOwn
    <3>3. c.counter > 0
      BY DEF CurrentOwn
    <3>4. ASSUME NEW i \in 1 .. (n + 1)
          PROVE  /\ toWorker'[i].id > 0 /\ toWorker'[i].id < c.counter + 1
                 /\ jobs[toWorker'[i].task].id = NoId /\ \A t \in Tasks : jobs[t].id # toWorker'[i].id
      <4>1. CASE i = n + 1
        BY <2>1, <2>2, <2>4, <2>5, <3>2, <3>3, <4>1
      <4>2. CASE i \in 1 .. n
        BY <2>2, <2>4, <3>1, <4>2
      <4> QED BY <2>4, <4>1, <4>2
    <3>5. ASSUME NEW i \in 1 .. (n + 1), NEW j \in 1 .. (n + 1),
                 toWorker'[i].task = toWorker'[j].task \/ toWorker'[i].id = toWorker'[j].id
          PROVE  i = j
      <4>1. \A k \in 1 .. (n + 1) : k = n + 1 \/ k \in 1 .. n
        BY <2>4
      <4>2. \A k \in 1 .. n : toWorker[k].task # h /\ toWorker[k].id # c.counter
        BY <2>2, <3>1
      <4>3. CASE i \in 1 .. n /\ j \in 1 .. n
        BY <2>4, <3>5, <4>3 DEF TransitOwn
      <4>4. CASE i = n + 1 /\ j \in 1 .. n
        BY <2>1, <2>4, <3>5, <4>2, <4>4
      <4>5. CASE i \in 1 .. n /\ j = n + 1
        BY <2>1, <2>4, <3>5, <4>2, <4>5
      <4> QED BY <4>1, <4>3, <4>4, <4>5
    <3> QED BY <2>1, <2>4, <3>4, <3>5 DEF TransitOwn
  <2>9. JobsOwn(client)'
    <3>1. \A t \in Tasks : jobs[t].id < c.counter + 1
      <4>1. \A t \in Tasks : jobs[t].id \in Nat
        BY DEF JobsOK, JobType
      <4> QED BY <2>2, <4>1 DEF JobsOwn
    <3> QED BY <2>1, <3>1 DEF JobsOwn
  <2>10. CurrentOwn(client)'
    <3>1. n + 1 \in DOMAIN toWorker' /\ toWorker'[n + 1].task = h /\ toWorker'[n + 1].id = c.counter
      BY <2>1, <2>4
    <3> QED BY <2>1, <2>2, <3>1 DEF CurrentOwn, NoId
  <2> QED BY <2>7, <2>8, <2>9, <2>10
<1> QED BY <1>1, <1>2

\* What is asked for is new;
LEMMA AskOwn ==
  ASSUME ControlOK, JobsOK, OwnInv, NEW t \in Tasks, NEW command \in Commands, Ask(t, command)
  PROVE  OwnInv'
<1> DEFINE c == MoreQueued(client, t, command)
           n == Len(client.queue)
<1>1. /\ c \in ClientType /\ GoOnWith(c) /\ c.queue = Append(client.queue, <<t, command>>)
      /\ c.current = client.current /\ c.id = client.id /\ c.counter = client.counter
      /\ outcome' = [outcome EXCEPT ![t] = Open]
  BY AskTypes
<1>2. toPage' = toPage /\ jobs' = jobs /\ outcome[t] = Unasked
  BY Zenon DEF Ask
<1>3. /\ \A u \in Tasks : u # t => outcome'[u] = outcome[u]
      /\ outcome'[t].is = "open" /\ outcome[t].is = "unasked"
  <2>1. Open.is = "open" /\ Unasked.is = "unasked" /\ outcome \in [Tasks -> OutcomeType]
    BY DEF Open, Unasked, ControlOK
  <2> QED BY <1>1, <1>2, <2>1
<1>4. /\ client.queue \in Seq(Tasks \X Commands) /\ n \in Nat /\ DOMAIN client.queue = 1 .. n
      /\ \A i \in 1 .. n : client.queue[i] \in Tasks \X Commands
  BY QueueFacts DEF ControlOK
<1>5. DOMAIN c.queue = 1 .. (n + 1) /\ c.queue[n + 1] = <<t, command>> /\ \A i \in 1 .. n : c.queue[i] = client.queue[i]
  BY <1>1, <1>4
<1> HIDE DEF c, n
<1>6. \A i \in 1 .. n : client.queue[i][1] # t /\ client.queue[i][1] \in Tasks /\ outcome[client.queue[i][1]].is = "open"
  BY <1>3, <1>4 DEF OwnInv, ClientOwn, QueueOwn
<1>7. \A u \in Tasks : NotSent(client, u) => NotSent(c, u)
  BY <1>1 DEF NotSent
<1>8. NotSent(c, t)
  BY <1>3, <1>7 DEF OwnInv, ClientOwn, QueueOwn
<1>9. QueueOwn(c, outcome')
  <2>1. \A k \in 1 .. (n + 1) : k = n + 1 \/ k \in 1 .. n
    BY <1>4
  <2>2. ASSUME NEW i \in 1 .. (n + 1), NEW j \in 1 .. (n + 1), c.queue[i][1] = c.queue[j][1] PROVE i = j
    <3>1. CASE i \in 1 .. n /\ j \in 1 .. n
      BY <1>4, <1>5, <2>2, <3>1 DEF OwnInv, ClientOwn, QueueOwn
    <3>2. CASE i = n + 1 /\ j \in 1 .. n
      BY <1>5, <1>6, <2>2, <3>2
    <3>3. CASE i \in 1 .. n /\ j = n + 1
      BY <1>5, <1>6, <2>2, <3>3
    <3> QED BY <2>1, <3>1, <3>2, <3>3
  <2>3. ASSUME NEW i \in 1 .. (n + 1) PROVE outcome'[c.queue[i][1]].is = "open" /\ NotSent(c, c.queue[i][1])
    <3>1. CASE i = n + 1
      BY <1>3, <1>5, <1>8, <3>1
    <3>2. CASE i \in 1 .. n
      <4>1. c.queue[i] = client.queue[i] /\ client.queue[i][1] # t /\ client.queue[i][1] \in Tasks
            /\ outcome[client.queue[i][1]].is = "open" /\ i \in DOMAIN client.queue
        BY <1>4, <1>5, <1>6, <3>2
      <4>2. NotSent(client, client.queue[i][1])
        BY <4>1 DEF OwnInv, ClientOwn, QueueOwn
      <4> QED BY <1>3, <1>7, <4>1, <4>2
    <3> QED BY <2>1, <3>1, <3>2
  <2>4. \A u \in Tasks : outcome'[u].is = "unasked" => NotSent(c, u)
    BY <1>3, <1>7 DEF OwnInv, ClientOwn, QueueOwn
  <2> QED BY <1>5, <2>2, <2>3, <2>4 DEF QueueOwn
<1>10. TransitOwn(c) /\ JobsOwn(c) /\ CurrentOwn(c)
  BY <1>1 DEF OwnInv, ClientOwn, TransitOwn, JobsOwn, CurrentOwn
<1>11. ClientOwn(client, outcome)'
  BY <1>1, <1>2, <1>9, <1>10, GoOnOwn DEF ClientOwn
<1>12. AnswersOwn'
  BY <1>2, <1>3 DEF OwnInv, AnswersOwn
<1> QED BY <1>11, <1>12 DEF OwnInv

\* giving up confuses no promises.
LEMMA GivesUpOwn ==
  ASSUME ControlOK, OwnInv, NEW ts, GivesUp(ts)
  PROVE  OwnInv'
<1>1. PICK left : /\ Loses(client, client', left)
                  /\ \A i \in DOMAIN client'.queue : client.queue[left[i]][1] \notin ts
  BY DEF GivesUp
<1>2. toWorker' = toWorker /\ toPage' = toPage /\ jobs' = jobs /\ ts \in SUBSET Tasks
  BY DEF GivesUp
<1>3. /\ \A t \in Tasks : t \notin ts => outcome'[t] = outcome[t]
      /\ \A t \in ts : outcome'[t].is = "cancelled"
  BY AbandonFacts DEF GivesUp
<1>4. /\ client'.counter = client.counter
      /\ \/ client'.current = client.current /\ client'.id = client.id
         \/ client'.current = NoTask /\ client'.id = NoId
      /\ left \in [DOMAIN client'.queue -> DOMAIN client.queue]
      /\ \A i, j \in DOMAIN client'.queue : left[i] = left[j] => i = j
      /\ \A i \in DOMAIN client'.queue : client'.queue[i] = client.queue[left[i]]
  BY <1>1 DEF Loses
<1>5. \A t \in Tasks : NotSent(client, t) => NotSent(client, t)'
  BY <1>2, <1>4 DEF NotSent, InTransit, NoTask, Tasks
<1>6. \A i \in DOMAIN client.queue : client.queue[i][1] \in Tasks
  BY QueueFacts DEF ControlOK
<1>7. QueueOwn(client, outcome)'
  <2>1. \A i, j \in DOMAIN client'.queue : client'.queue[i][1] = client'.queue[j][1] => i = j
    BY <1>4 DEF OwnInv, ClientOwn, QueueOwn
  <2>2. \A i \in DOMAIN client'.queue : outcome'[client'.queue[i][1]].is = "open" /\ NotSent(client, client.queue[i][1])'
    BY <1>1, <1>3, <1>4, <1>5, <1>6 DEF OwnInv, ClientOwn, QueueOwn
  <2>3. \A t \in Tasks : outcome'[t].is = "unasked" => NotSent(client, t)'
    BY <1>3, <1>5 DEF OwnInv, ClientOwn, QueueOwn
  <2> QED BY <2>1, <2>2, <2>3 DEF QueueOwn
<1>8. TransitOwn(client)' /\ JobsOwn(client)'
  BY <1>2, <1>4 DEF OwnInv, ClientOwn, TransitOwn, JobsOwn
<1>9. CurrentOwn(client)'
  BY <1>2, <1>4 DEF OwnInv, ClientOwn, CurrentOwn, NoId
<1>10. AnswersOwn'
  BY <1>2, <1>3 DEF OwnInv, AnswersOwn
<1> QED BY <1>7, <1>8, <1>9, <1>10 DEF OwnInv, ClientOwn

\* Only four fields of the client tell whose command it is.
LEMMA SameClient ==
  ASSUME NEW c, NEW d, NEW out, c.queue = d.queue, c.current = d.current, c.id = d.id, c.counter = d.counter,
         ClientOwn(c, out)
  PROVE  ClientOwn(d, out)
BY DEF ClientOwn, QueueOwn, NotSent, TransitOwn, JobsOwn, CurrentOwn

\* An answer settles the promise of its own command, and sends one that was not sent.
LEMMA AnswerOwn ==
  ASSUME ControlOK, JobsOK, OwnInv, HandleAnswer
  PROVE  OwnInv'
<1> DEFINE message == Head(toPage)
<1>1. /\ toPage # << >> /\ message.is \in {"resolved", "failed", "error"} /\ message \in MessageType
      /\ toPage' = Tail(toPage)
      /\ Settles(message) \/ GoesOnWith(message) \/ Rests(message)
      /\ jobs' = jobs
  BY AnswerFacts
<1>2. /\ message = toPage[1] /\ 1 \in DOMAIN toPage
      /\ \A i \in DOMAIN Tail(toPage) : i + 1 \in DOMAIN toPage /\ Tail(toPage)[i] = toPage[i + 1]
  BY <1>1, HeadTail DEF ControlOK
<1>3. /\ IsAnswer(message) => message.of \in Tasks /\ message.id # NoId /\ jobs[message.of].id = message.id
      /\ message.is = "error" => message.id = NoId
  BY <1>2 DEF OwnInv, AnswersOwn
<1>4. \A i \in DOMAIN toPage' :
        /\ IsAnswer(toPage'[i]) => /\ toPage'[i].of \in Tasks /\ toPage'[i].id # NoId
                                   /\ jobs'[toPage'[i].of].id = toPage'[i].id
        /\ toPage'[i].is = "error" => toPage'[i].id = NoId
  BY <1>1, <1>2 DEF OwnInv, AnswersOwn
<1>5. /\ Rested(client) \in ClientType /\ Rested(client).queue = client.queue
      /\ Rested(client).current = client.current /\ Rested(client).id = client.id
      /\ Rested(client).counter = client.counter
      /\ client.current \in Taskless
      /\ \A i \in DOMAIN client.queue : client.queue[i] \in Tasks \X Commands
  BY RestedFacts, QueueFacts DEF ControlOK
<1> HIDE DEF message
<1>6. CASE Settles(message)
  <2> DEFINE settled == [is |-> message.is, of |-> message.of, got |-> message.got]
             t == client.current
  <2>1. t \in Tasks /\ outcome' = [outcome EXCEPT ![t] = settled] /\ IsExpected(message)
    BY <1>5, <1>6 DEF Settles, Taskless
  <2>2. PICK c \in ClientType : /\ c.queue = client.queue /\ c.current = client.current
                                /\ c.id = client.id /\ c.counter = client.counter
                                /\ GoOnWith(c)
    BY <1>6 DEF Settles
  <2>3. settled.is = message.is /\ settled.of = message.of
    OBVIOUS
  <2> HIDE DEF settled
  <2>4. outcome'[t] = settled /\ \A u \in Tasks : u # t => outcome'[u] = outcome[u]
    BY <2>1 DEF ControlOK
  <2>5. message.is = "resolved" => message.of = t
    <3> SUFFICES ASSUME message.is = "resolved" PROVE message.of = t
      OBVIOUS
    <3>1. message.of \in Tasks /\ message.id # NoId /\ jobs[message.of].id = message.id
      BY <1>3 DEF IsAnswer
    <3>2. client.id = message.id
      BY <1>6, <2>1 DEF IsExpected, Settles, OwnInv, ClientOwn, CurrentOwn
    <3>3. jobs[t].id = message.id
      BY <1>6, <3>1, <3>2 DEF Settles, OwnInv, ClientOwn, CurrentOwn, TransitOwn
    <3> QED BY <2>1, <3>1, <3>3 DEF OwnInv, ClientOwn, JobsOwn
  <2>6. AnswersOwn'
    BY <1>4, <2>1, <2>3, <2>4, <2>5 DEF AnswersOwn, OwnInv
  <2>7. ClientOwn(client, outcome')
    <3>1. \A i \in DOMAIN client.queue : client.queue[i][1] \in Tasks /\ client.queue[i][1] # t
      BY <1>5 DEF OwnInv, ClientOwn, QueueOwn, NotSent
    <3>2. outcome'[t].is # "unasked"
      BY <1>1, <2>3, <2>4
    <3>3. QueueOwn(client, outcome')
      BY <2>4, <3>1, <3>2 DEF OwnInv, ClientOwn, QueueOwn
    <3> QED BY <3>3 DEF OwnInv, ClientOwn
  <2>8. ClientOwn(c, outcome')
    BY <2>2, <2>7, SameClient
  <2> QED BY <1>1, <2>2, <2>6, <2>8, GoOnOwn DEF OwnInv
<1>7. ClientOwn(Rested(client), outcome)
  BY <1>5, SameClient DEF OwnInv
<1>8. CASE GoesOnWith(message)
  <2>1. outcome' = outcome /\ GoOnWith(Rested(client))
    BY <1>8 DEF GoesOnWith
  <2>2. ClientOwn(Rested(client), outcome')
    BY <1>7, <2>1
  <2>3. ClientOwn(client, outcome)'
    BY <1>1, <1>5, <2>1, <2>2, GoOnOwn
  <2>4. AnswersOwn'
    BY <1>4, <2>1 DEF AnswersOwn, OwnInv
  <2> QED BY <2>3, <2>4 DEF OwnInv
<1>9. CASE Rests(message)
  <2>1. client' = Rested(client) /\ toWorker' = toWorker /\ outcome' = outcome
    BY <1>9 DEF Rests
  <2>2. ClientOwn(client, outcome)'
    BY <1>1, <1>5, <2>1 DEF OwnInv, ClientOwn, QueueOwn, NotSent, InTransit, TransitOwn, JobsOwn, CurrentOwn
  <2>3. AnswersOwn'
    BY <1>4, <2>1 DEF AnswersOwn, OwnInv
  <2> QED BY <2>2, <2>3 DEF OwnInv
<1> QED BY <1>1, <1>6, <1>8, <1>9

\* Nothing changes when the client and the commands do not.
LEMMA SameOwn ==
  ASSUME OwnInv, client' = client, outcome' = outcome, toWorker' = toWorker, jobs' = jobs
  PROVE  ClientOwn(client, outcome)'
BY DEF OwnInv, ClientOwn, QueueOwn, NotSent, InTransit, TransitOwn, JobsOwn, CurrentOwn

\* Progress is nobody's answer,
LEMMA ProgressOwn ==
  ASSUME ControlOK, OwnInv, HandleProgress
  PROVE  OwnInv'
<1>1. /\ toPage # << >> /\ toPage' = Tail(toPage)
      /\ outcome' = outcome /\ client' = client /\ toWorker' = toWorker /\ jobs' = jobs
  BY ProgressTypes
<1>2. \A i \in DOMAIN Tail(toPage) : i + 1 \in DOMAIN toPage /\ Tail(toPage)[i] = toPage[i + 1]
  BY <1>1, HeadTail DEF ControlOK
<1>3. AnswersOwn'
  BY <1>1, <1>2 DEF OwnInv, AnswersOwn
<1> QED BY <1>1, <1>3, SameOwn DEF OwnInv

\* nor is an error.
LEMMA ErrorOwn ==
  ASSUME ControlOK, OwnInv, WorkerError
  PROVE  OwnInv'
<1> DEFINE message == Message("error", NoId, NoTask, << >>)
           n == Len(toPage)
<1>1. /\ toPage' = Append(toPage, message)
      /\ outcome' = outcome /\ client' = client /\ toWorker' = toWorker /\ jobs' = jobs
  BY ErrorTypes
<1>2. message.is = "error" /\ message.id = NoId /\ ~IsAnswer(message)
  BY DEF Message, IsAnswer
<1> HIDE DEF message
<1>3. \A i \in DOMAIN toPage' : toPage'[i] = message \/ (i \in DOMAIN toPage /\ toPage'[i] = toPage[i])
  BY <1>1 DEF ControlOK
<1>4. AnswersOwn'
  BY <1>1, <1>2, <1>3 DEF OwnInv, AnswersOwn
<1> QED BY <1>1, <1>4, SameOwn DEF OwnInv

\* The messages of a step of the worker on t are its own.
LEMMA PostedOwn ==
  ASSUME ControlOK, JobsOK, AnswersOwn, NEW t \in Tasks, NEW done \in JobType, Posted(t, done), done.id # NoId,
         jobs[t].id \in {NoId, done.id}, outcome' = outcome
  PROVE  AnswersOwn'
<1>1. /\ \A u \in Tasks : u # t => jobs'[u] = jobs[u]
      /\ SameButAnswered(jobs'[t], done)
      /\ \A i \in DOMAIN toPage' :
           \/ i \in DOMAIN toPage /\ toPage'[i] = toPage[i]
           \/ i \notin DOMAIN toPage /\ toPage'[i].is = "progress"
           \/ /\ i \notin DOMAIN toPage /\ i = Len(toPage') /\ jobs'[t].answered /\ ~done.answered
              /\ IsReply(toPage'[i], t, done)
  BY PostedFacts
<1>2. jobs'[t].id = done.id
  BY <1>1 DEF SameButAnswered
<1>3. ASSUME NEW i \in DOMAIN toPage'
      PROVE  /\ IsAnswer(toPage'[i]) => /\ toPage'[i].of \in Tasks /\ toPage'[i].id # NoId
                                        /\ jobs'[toPage'[i].of].id = toPage'[i].id
             /\ toPage'[i].is = "error" => toPage'[i].id = NoId
  <2>1. CASE i \in DOMAIN toPage /\ toPage'[i] = toPage[i]
    BY <1>1, <1>2, <2>1 DEF AnswersOwn
  <2>2. CASE toPage'[i].is = "progress"
    BY <2>2 DEF IsAnswer
  <2>3. CASE IsReply(toPage'[i], t, done)
    BY <1>2, <2>3 DEF IsReply, IsAnswer
  <2> QED BY <1>1, <1>3, <2>1, <2>2, <2>3
<1> QED BY <1>3 DEF AnswersOwn

\* A step on a command the worker has answers that command;
LEMMA GoesOnOwn ==
  ASSUME ControlOK, JobsOK, OwnInv, NEW t \in Tasks, jobs[t] # NoJob, GoesOn(t),
         outcome' = outcome, client' = client, toWorker' = toWorker
  PROVE  OwnInv'
<1>1. PICK done \in JobType : done.id = jobs[t].id /\ Posted(t, done)
  BY DEF GoesOn
<1>2. jobs[t].id # NoId
  BY DEF OwnInv, ClientOwn, JobsOwn
<1>3. AnswersOwn'
  BY <1>1, <1>2, PostedOwn DEF OwnInv
<1>4. /\ \A u \in Tasks : u # t => jobs'[u] = jobs[u]
      /\ \A u \in Tasks : jobs'[u].id = jobs[u].id
  BY <1>1, PostedFacts DEF SameButAnswered
<1>5. JobsOwn(client)'
  BY <1>2, <1>4 DEF OwnInv, ClientOwn, JobsOwn
<1>6. TransitOwn(client)'
  <2>1. \A i \in DOMAIN toWorker : toWorker[i].task \in Tasks
    <3>1. \A i \in DOMAIN toWorker : toWorker[i] \in CommandType
      BY DEF ControlOK
    <3> QED BY <3>1 DEF CommandType
  <2> QED BY <1>4, <2>1 DEF OwnInv, ClientOwn, TransitOwn
<1>7. CurrentOwn(client)'
  <2>1. client.current # NoTask => client.current \in Tasks
    BY QueueFacts DEF ControlOK, Taskless
  <2> QED BY <1>4, <2>1 DEF OwnInv, ClientOwn, CurrentOwn
<1>8. QueueOwn(client, outcome)'
  <2>1. \A i \in DOMAIN client.queue : client.queue[i][1] \in Tasks
    BY QueueFacts DEF ControlOK
  <2> QED BY <1>4, <2>1 DEF OwnInv, ClientOwn, QueueOwn, NotSent, InTransit
<1> QED BY <1>3, <1>5, <1>6, <1>7, <1>8 DEF OwnInv, ClientOwn

\* so does the first step on one.
LEMMA ReceiveOwn ==
  ASSUME TypeInv, PagesOwn, OwnInv, Receive
  PROVE  OwnInv'
<1> DEFINE sent == Head(toWorker)
           t == sent.task
<1>1. /\ toWorker # << >> /\ toWorker' = Tail(toWorker)
      /\ outcome' = outcome /\ client' = client
  BY Zenon DEF Receive
<1>2. ControlOK /\ JobsOK /\ toWorker \in Seq(CommandType)
  BY DEF TypeInv, ControlOK
<1>3. /\ sent \in CommandType /\ sent = toWorker[1] /\ 1 \in DOMAIN toWorker
      /\ \A i \in DOMAIN Tail(toWorker) : i + 1 \in DOMAIN toWorker /\ i + 1 # 1 /\ Tail(toWorker)[i] = toWorker[i + 1]
      /\ \A i \in DOMAIN toWorker : i # 1 => i - 1 \in DOMAIN Tail(toWorker) /\ Tail(toWorker)[i - 1] = toWorker[i]
  BY <1>1, <1>2, HeadTail
<1>4. PICK done : Taken(sent, done)
  BY ReceiveFacts
<1>5. done \in JobType /\ done.id = sent.id /\ Posted(t, done)
  BY <1>4 DEF Taken
<1>6. t \in Tasks /\ sent.id \in Nat
  BY <1>3 DEF CommandType
<1>7. /\ sent.id > 0 /\ sent.id < client.counter /\ jobs[t].id = NoId
      /\ \A u \in Tasks : jobs[u].id # sent.id
  BY <1>3 DEF OwnInv, ClientOwn, TransitOwn
<1>8. \A i \in DOMAIN toWorker : toWorker[i].task \in Tasks
  <2>1. \A i \in DOMAIN toWorker : toWorker[i] \in CommandType
    BY <1>2
  <2> QED BY <2>1 DEF CommandType
<1>9. \A i \in DOMAIN toWorker : i # 1 => toWorker[i].task # t /\ toWorker[i].id # sent.id
  BY <1>3 DEF OwnInv, ClientOwn, TransitOwn
<1>10. InTransit(t)
  BY <1>3 DEF InTransit
<1> HIDE DEF t, sent
<1>11. AnswersOwn'
  BY <1>1, <1>2, <1>5, <1>6, <1>7, PostedOwn DEF OwnInv, NoId
<1>12. jobs'[t].id = sent.id /\ \A u \in Tasks : u # t => jobs'[u] = jobs[u]
  BY <1>2, <1>5, <1>6, PostedFacts DEF SameButAnswered
<1>13. JobsOwn(client)'
  BY <1>1, <1>6, <1>7, <1>12 DEF OwnInv, ClientOwn, JobsOwn, NoId
<1>14. TransitOwn(client)'
  <2>1. \A i, j \in DOMAIN toWorker' :
          toWorker'[i].task = toWorker'[j].task \/ toWorker'[i].id = toWorker'[j].id => i = j
    <3> TAKE i, j \in DOMAIN toWorker'
    <3>1. i \in Nat /\ j \in Nat
      BY <1>1, <1>2, HeadTail
    <3>2. toWorker'[i].task = toWorker'[j].task \/ toWorker'[i].id = toWorker'[j].id => i + 1 = j + 1
      BY <1>1, <1>3 DEF OwnInv, ClientOwn, TransitOwn
    <3> QED BY <3>1, <3>2
  <2>2. ASSUME NEW i \in DOMAIN toWorker'
        PROVE  /\ toWorker'[i].id > 0 /\ toWorker'[i].id < client'.counter
               /\ jobs'[toWorker'[i].task].id = NoId
               /\ \A u \in Tasks : jobs'[u].id # toWorker'[i].id
    <3>1. i + 1 \in DOMAIN toWorker /\ i + 1 # 1 /\ toWorker'[i] = toWorker[i + 1]
      BY <1>1, <1>3
    <3> QED BY <1>1, <1>8, <1>9, <1>12, <3>1 DEF OwnInv, ClientOwn, TransitOwn
  <2> QED BY <2>1, <2>2 DEF TransitOwn
<1>15. \A u \in Tasks : u # t /\ NotSent(client, u) => NotSent(client, u)'
  BY <1>1, <1>3, <1>12 DEF NotSent, InTransit
<1>16. \A u \in Tasks : NotSent(client, u) => NotSent(client, u)'
  BY <1>10, <1>15 DEF NotSent
<1>17. QueueOwn(client, outcome)'
  <2>1. \A i \in DOMAIN client.queue : client.queue[i][1] \in Tasks
    BY <1>2, QueueFacts DEF ControlOK
  <2>2. \A i \in DOMAIN client'.queue : outcome'[client'.queue[i][1]].is = "open" /\ NotSent(client, client.queue[i][1])'
    BY <1>1, <1>16, <2>1 DEF OwnInv, ClientOwn, QueueOwn
  <2>3. \A u \in Tasks : outcome'[u].is = "unasked" => NotSent(client, u)'
    BY <1>1, <1>16 DEF OwnInv, ClientOwn, QueueOwn
  <2> QED BY <1>1, <2>2, <2>3 DEF OwnInv, ClientOwn, QueueOwn
<1>18. CurrentOwn(client)'
  <2>1. client.current # NoTask => client.current \in Tasks
    BY <1>2, QueueFacts DEF ControlOK, Taskless
  <2>2. CASE client.current = NoTask
    BY <1>1, <2>2 DEF OwnInv, ClientOwn, CurrentOwn
  <2>3. CASE client.current # NoTask /\ jobs[client.current].id = client.id
    <3>1. client.current # t
      BY <1>7, <2>3 DEF OwnInv, ClientOwn, CurrentOwn
    <3> QED BY <1>1, <1>12, <2>1, <2>3, <3>1 DEF OwnInv, ClientOwn, CurrentOwn
  <2>4. ASSUME NEW i \in DOMAIN toWorker, client.current # NoTask, toWorker[i].task = client.current, toWorker[i].id = client.id
        PROVE  CurrentOwn(client)'
    <3>1. CASE i = 1
      BY <1>1, <1>3, <1>12, <2>4, <3>1 DEF OwnInv, ClientOwn, CurrentOwn, t
    <3>2. CASE i # 1
      BY <1>1, <1>3, <2>4, <3>2, SMTT(30) DEF OwnInv, ClientOwn, CurrentOwn
    <3> QED BY <3>1, <3>2
  <2> QED BY <2>2, <2>3, <2>4 DEF OwnInv, ClientOwn, CurrentOwn
<1> QED BY <1>11, <1>13, <1>14, <1>17, <1>18 DEF OwnInv, ClientOwn

-----------------------------------------------------------------------------
(* The document and the bundles. *)

BundlesOwn == \A t \in Tasks : jobs[t].id # NoId /\ jobs[t].page = 0 => BundleOK(jobs[t])

Whole(n) == <<n, Parts(n)>>

\* As long as no chain has failed, no page object lacks a file it includes.
ShownFull ==
  ~SomethingFailed =>
    /\ AllFull(doc)
    /\ \A t \in Tasks : jobs[t].page # 0 => \A c \in Chains(t) :
         jobs[t].chains[c].at \in {"blob", "done"} => jobs[t].chains[c].got = Whole(jobs[t].page)

\* What a promise that is resolved was given.
Right(got, t) ==
  /\ jobs[t].id # NoId
  /\ jobs[t].page = 0 => got = Directory
  /\ jobs[t].page # 0 /\ ~SomethingFailed => \A c \in DOMAIN got : got[c] = Whole(jobs[t].page)
AnswersRight ==
  /\ \A i \in DOMAIN toPage : toPage[i].is = "resolved" => toPage[i].of \in Tasks /\ Right(toPage[i].got, toPage[i].of)
  /\ \A t \in Tasks : outcome[t].is = "resolved" => Right(outcome[t].got, t)

Taking == {p \in Tasks \X Nat : p[2] \in Chains(p[1]) /\ jobs[p[1]].chains[p[2]].at = "parts"}
MemoryInv ==
  doc.kind = "indirect" =>
    /\ Listed(doc) /\ IsFiniteSet(Taking)
    /\ Slack(doc) >= Base + Cardinality(Taking)

\* A step of a chain replaces that chain only.
LEMMA PageStepFacts ==
  ASSUME ControlOK, JobsOK, NEW t \in Tasks, NEW c \in Chains(t), NEW end \in ChainType,
         Posted(t, SetChain(t, c, end))
  PROVE  /\ \A u \in Tasks : u # t => jobs'[u] = jobs[u]
         /\ jobs'[t].id = jobs[t].id /\ jobs'[t].page = jobs[t].page /\ DOMAIN jobs'[t].chains = Chains(t)
         /\ jobs'[t].chains[c] = end
         /\ \A e \in Chains(t) : e # c => jobs'[t].chains[e] = jobs[t].chains[e]
<1> DEFINE done == SetChain(t, c, end)
<1>1. /\ done \in JobType /\ done.id = jobs[t].id /\ done.page = jobs[t].page
      /\ DOMAIN done.chains = Chains(t) /\ done.chains[c] = end
      /\ \A e \in Chains(t) : e # c => done.chains[e] = jobs[t].chains[e]
  BY SetChainFacts
<1> HIDE DEF done
<1>2. SameButAnswered(jobs'[t], done) /\ \A u \in Tasks : u # t => jobs'[u] = jobs[u]
  BY <1>1, PostedFacts DEF done
<1> QED BY <1>1, <1>2 DEF SameButAnswered

\* A step of a chain leaves every object to its own page;
LEMMA PagesStep ==
  ASSUME TypeInv, PagesOwn, OwnInv, NEW t \in Tasks, NEW c \in Chains(t), PageStep(t, c)
  PROVE  PagesOwn' /\ DocOK(doc')
<1>1. PICK end \in ChainType :
    /\ Posted(t, SetChain(t, c, end))
    /\ jobs[t].page # 0
    /\ ChainOK(jobs[t].page, end)
    /\ Grows(doc, doc', jobs[t].page, <<jobs[t].id, c>>)
    /\ Holds(end) => IsObject(doc', end.obj) /\ doc'.objs[end.obj].page = jobs[t].page
  BY DEF PageStep
<1>2. ControlOK /\ JobsOK /\ HeldOwn /\ MadeOwn /\ KeptOwn
  BY DEF TypeInv, PagesOwn
<1>3. /\ \A u \in Tasks : u # t => jobs'[u] = jobs[u]
      /\ jobs'[t].id = jobs[t].id /\ jobs'[t].page = jobs[t].page /\ DOMAIN jobs'[t].chains = Chains(t)
      /\ jobs'[t].chains[c] = end
      /\ \A e \in Chains(t) : e # c => jobs'[t].chains[e] = jobs[t].chains[e]
  BY <1>1, <1>2, PageStepFacts
<1>4. /\ DocOK(doc')
      /\ DOMAIN doc.objs \subseteq DOMAIN doc'.objs /\ DOMAIN doc'.objs \subseteq DOMAIN doc.objs \union {<<jobs[t].id, c>>}
      /\ \A x \in DOMAIN doc.objs : doc'.objs[x].page = doc.objs[x].page
  BY <1>1 DEF Grows
<1>5. HeldOwn'
  <2> SUFFICES ASSUME NEW u \in Tasks, NEW e \in DOMAIN jobs'[u].chains
               PROVE  /\ ChainOK(jobs'[u].page, jobs'[u].chains[e])
                      /\ Holds(jobs'[u].chains[e]) => /\ IsObject(doc', jobs'[u].chains[e].obj)
                                                      /\ doc'.objs[jobs'[u].chains[e].obj].page = jobs'[u].page
    BY DEF HeldOwn, Chains
  <2>1. CASE u = t /\ e = c
    BY <1>1, <1>3, <2>1
  <2>2. CASE ~(u = t /\ e = c)
    <3>1. e \in Chains(u) /\ jobs'[u].chains[e] = jobs[u].chains[e] /\ jobs'[u].page = jobs[u].page
      BY <1>3, <2>2 DEF Chains
    <3> QED BY <1>2, <1>4, <3>1 DEF HeldOwn, IsObject
  <2> QED BY <2>1, <2>2
<1>6. MadeOwn'
  <2> SUFFICES ASSUME NEW o \in DOMAIN doc'.objs, o[1] # 0
               PROVE  \E u \in Tasks : jobs'[u].id = o[1] /\ jobs'[u].page = doc'.objs[o].page
    BY DEF MadeOwn
  <2>1. CASE o \in DOMAIN doc.objs
    <3>1. PICK u \in Tasks : jobs[u].id = o[1] /\ jobs[u].page = doc.objs[o].page
      BY <1>2, <2>1 DEF MadeOwn
    <3> QED BY <1>3, <1>4, <2>1, <3>1
  <2>2. CASE o \notin DOMAIN doc.objs
    <3>1. o = <<jobs[t].id, c>>
      BY <1>4, <2>2
    <3>2. doc'.objs[o].page = jobs[t].page
      BY <1>1, <2>2, <3>1 DEF Grows, IsObject
    <3> QED BY <1>3, <3>1, <3>2
  <2> QED BY <2>1, <2>2
<1>7. KeptOwn'
  <2> SUFFICES ASSUME NEW n \in PageNumbers, doc'.pages[n] # Absent
               PROVE  IsObject(doc', doc'.pages[n]) /\ doc'.objs[doc'.pages[n]].page = n
    BY DEF KeptOwn
  <2>1. \/ doc'.pages[n] = doc.pages[n]
        \/ IsObject(doc', doc'.pages[n]) /\ doc'.objs[doc'.pages[n]].page = n
    BY <1>1 DEF Grows
  <2> QED BY <1>2, <1>4, <2>1 DEF KeptOwn, IsObject
<1> QED BY <1>4, <1>5, <1>6, <1>7 DEF PagesOwn

\* The command's jobs after a file of a bundle.
LEMMA FileStepFacts ==
  ASSUME TypeInv, PagesOwn, NEW t \in Tasks, NEW c \in Chains(t), FileStep(t, c)
  PROVE  /\ doc' = doc /\ \A u \in Tasks : u # t => jobs'[u] = jobs[u]
         /\ jobs'[t].id = jobs[t].id /\ jobs'[t].page = 0 /\ jobs[t].page = 0 /\ DOMAIN jobs'[t].chains = Chains(t)
         /\ \A e \in Chains(t) : /\ ChainOK(0, jobs'[t].chains[e])
                                 /\ jobs[t].chains[e].at = "failed" => jobs'[t].chains[e].at = "failed"
         /\ BundleOK(jobs[t]) => BundleOK(jobs'[t])
<1>1. ControlOK /\ JobsOK /\ HeldOwn
  BY DEF TypeInv, PagesOwn
<1>2. jobs[t].page = 0 /\ jobs[t].chains[c].at = "load" /\ doc' = doc
  BY DEF FileStep
<1>3. PICK job \in JobType : \E next : FileEnds(t, c, job) /\ Starts(job, next) /\ Posted(t, next)
  BY DEF FileStep
<1>4. PICK next : FileEnds(t, c, job) /\ Starts(job, next) /\ Posted(t, next)
  BY <1>3
<1>5. next \in JobType /\ next.id = jobs[t].id /\ next.page = 0 /\ DOMAIN next.chains = Chains(t) /\ DOMAIN job.chains = Chains(t)
  BY <1>2, <1>4 DEF FileEnds, Starts
<1>6. /\ SameButAnswered(jobs'[t], next) /\ \A u \in Tasks : u # t => jobs'[u] = jobs[u]
      /\ jobs'[t].chains = next.chains /\ jobs'[t].started = next.started
  BY <1>1, <1>4, <1>5, PostedFacts DEF SameButAnswered
<1>7. \A e \in Chains(t) : ChainOK(0, jobs[t].chains[e])
  BY <1>1, <1>2 DEF HeldOwn
<1>8. \A e \in Chains(t) : /\ ChainOK(0, job.chains[e])
                           /\ jobs[t].chains[e].at = "failed" => job.chains[e].at = "failed"
  BY <1>2, <1>4, <1>7 DEF FileEnds, ChainOK
<1>9. \A e \in Chains(t) : /\ ChainOK(0, next.chains[e])
                           /\ jobs[t].chains[e].at = "failed" => next.chains[e].at = "failed"
  BY <1>4, <1>5, <1>8 DEF Starts, ChainOK, LeastIdle
<1>10. ASSUME BundleOK(jobs[t]) PROVE BundleOK(jobs'[t])
  <2>1. PICK k \in 0 .. Len(Directory) : BundleAt(jobs[t], k)
    BY <1>10 DEF BundleOK
  <2>2. BundleAt(job, k)
    <3> SUFFICES ASSUME NEW e \in Chains(t)
                 PROVE  /\ e <= k => job.chains[e].got = Directory[e] /\ job.chains[e].at # "idle"
                        /\ e > k => job.chains[e].at = "idle"
      BY <1>4, <1>5, <2>1 DEF BundleAt, FileEnds
    <3>1. CASE e # c
      BY <1>4, <2>1, <3>1 DEF BundleAt, FileEnds, Chains
    <3>2. CASE e = c
      BY <1>2, <1>4, <2>1, <3>2 DEF BundleAt, FileEnds, Chains
    <3> QED BY <3>1, <3>2
  <2>3. BundleOK(job)
    BY <1>5, <1>10, <2>2 DEF BundleOK, Chains
  <2>4. BundleOK(next)
    BY <1>4, <2>3, StartBundle
  <2> QED BY <1>6, <2>4 DEF BundleOK, BundleAt
<1> QED BY <1>2, <1>5, <1>6, <1>9, <1>10 DEF SameButAnswered

\* so does a step of a bundle,
LEMMA FilesStep ==
  ASSUME TypeInv, PagesOwn, NEW t \in Tasks, NEW c \in Chains(t), FileStep(t, c)
  PROVE  PagesOwn' /\ DocOK(doc')
<1>1. /\ doc' = doc /\ \A u \in Tasks : u # t => jobs'[u] = jobs[u]
      /\ jobs'[t].id = jobs[t].id /\ jobs'[t].page = 0 /\ jobs[t].page = 0 /\ DOMAIN jobs'[t].chains = Chains(t)
      /\ \A e \in Chains(t) : ChainOK(0, jobs'[t].chains[e])
  BY FileStepFacts
<1>2. HeldOwn'
  <2> SUFFICES ASSUME NEW u \in Tasks, NEW e \in DOMAIN jobs'[u].chains
               PROVE  /\ ChainOK(jobs'[u].page, jobs'[u].chains[e])
                      /\ Holds(jobs'[u].chains[e]) => /\ IsObject(doc', jobs'[u].chains[e].obj)
                                                      /\ doc'.objs[jobs'[u].chains[e].obj].page = jobs'[u].page
    BY DEF HeldOwn, Chains
  <2>1. CASE u = t
    BY <1>1, <2>1 DEF ChainOK, Holds
  <2>2. CASE u # t
    BY <1>1, <2>2 DEF PagesOwn, HeldOwn, Chains
  <2> QED BY <2>1, <2>2
<1>3. MadeOwn'
  BY <1>1 DEF PagesOwn, MadeOwn
<1>4. KeptOwn'
  BY <1>1 DEF PagesOwn, KeptOwn
<1> QED BY <1>1, <1>2, <1>3, <1>4 DEF PagesOwn, TypeInv, ObjectsOK

\* The jobs after a command is received.
LEMMA ReceiveStepFacts ==
  ASSUME TypeInv, PagesOwn, OwnInv, Receive
  PROVE  \E t \in Tasks, done \in JobType :
           /\ Taken(Head(toWorker), done) /\ t = Head(toWorker).task
           /\ jobs[t] = NoJob /\ Chains(t) = {} /\ done.id # NoId
           /\ \A u \in Tasks : u # t => jobs'[u] = jobs[u]
           /\ SameButAnswered(jobs'[t], done)
<1> DEFINE sent == Head(toWorker)
           t == sent.task
<1>1. toWorker # << >>
  BY Zenon DEF Receive
<1>2. ControlOK /\ JobsOK /\ toWorker \in Seq(CommandType)
  BY DEF TypeInv, ControlOK
<1>3. sent \in CommandType /\ sent = toWorker[1] /\ 1 \in DOMAIN toWorker
  BY <1>1, <1>2, HeadTail
<1>4. t \in Tasks /\ jobs[t].id = NoId /\ sent.id > 0
  BY <1>3 DEF CommandType, OwnInv, ClientOwn, TransitOwn
<1>5. jobs[t] = NoJob /\ Chains(t) = {}
  <2>1. jobs[t] = NoJob
    BY <1>4 DEF OwnInv, ClientOwn, JobsOwn
  <2> QED BY <2>1 DEF NoJob, Chains
<1>6. PICK done : Taken(sent, done)
  BY ReceiveFacts
<1>7. done \in JobType /\ done.id = sent.id /\ Posted(t, done)
  BY <1>6 DEF Taken
<1> HIDE DEF t
<1>8. SameButAnswered(jobs'[t], done) /\ \A u \in Tasks : u # t => jobs'[u] = jobs[u]
  BY <1>2, <1>4, <1>7, PostedFacts
<1> QED BY <1>4, <1>5, <1>6, <1>7, <1>8 DEF t, NoId

\* and a command received.
LEMMA ReceiveStep ==
  ASSUME TypeInv, PagesOwn, OwnInv, Receive
  PROVE  PagesOwn' /\ DocOK(doc')
<1>1. PICK t \in Tasks, done \in JobType :
        /\ Taken(Head(toWorker), done) /\ t = Head(toWorker).task
        /\ jobs[t] = NoJob /\ Chains(t) = {} /\ done.id # NoId
        /\ \A u \in Tasks : u # t => jobs'[u] = jobs[u]
        /\ SameButAnswered(jobs'[t], done)
  BY ReceiveStepFacts
<1>2. /\ Touches(doc, doc')
      /\ \A c \in DOMAIN done.chains :
           /\ ChainOK(done.page, done.chains[c])
           /\ Holds(done.chains[c]) => IsObject(doc', done.chains[c].obj) /\ doc'.objs[done.chains[c].obj].page = done.page
  BY <1>1 DEF Taken
<1>3. /\ DocOK(doc') /\ DOMAIN doc'.objs = DOMAIN doc.objs /\ doc'.pages = doc.pages
      /\ \A x \in DOMAIN doc.objs : doc'.objs[x].page = doc.objs[x].page
  BY <1>2 DEF Touches, SameFiles, Renewed
<1>4. HeldOwn'
  <2> SUFFICES ASSUME NEW u \in Tasks, NEW e \in DOMAIN jobs'[u].chains
               PROVE  /\ ChainOK(jobs'[u].page, jobs'[u].chains[e])
                      /\ Holds(jobs'[u].chains[e]) => /\ IsObject(doc', jobs'[u].chains[e].obj)
                                                      /\ doc'.objs[jobs'[u].chains[e].obj].page = jobs'[u].page
    BY SMTT(30) DEF HeldOwn, Chains
  <2>1. CASE u = t
    BY <1>1, <1>2, <2>1 DEF SameButAnswered
  <2>2. CASE u # t
    <3>1. e \in Chains(u) /\ jobs'[u] = jobs[u]
      BY <1>1, <2>2 DEF Chains
    <3> QED BY <1>3, <3>1 DEF PagesOwn, HeldOwn, IsObject
  <2> QED BY <2>1, <2>2
<1>5. MadeOwn'
  <2> SUFFICES ASSUME NEW o \in DOMAIN doc.objs, o[1] # 0
               PROVE  \E u \in Tasks : jobs'[u].id = o[1] /\ jobs'[u].page = doc'.objs[o].page
    BY <1>3 DEF MadeOwn
  <2>1. PICK u \in Tasks : jobs[u].id = o[1] /\ jobs[u].page = doc.objs[o].page
    BY DEF PagesOwn, MadeOwn
  <2>2. u # t
    BY <1>1, <2>1 DEF NoJob, NoId
  <2> QED BY <1>1, <1>3, <2>1, <2>2
<1>6. KeptOwn'
  BY <1>3 DEF PagesOwn, KeptOwn, IsObject
<1> QED BY <1>3, <1>4, <1>5, <1>6 DEF PagesOwn

-----------------------------------------------------------------------------
(* What the promises are given. *)

\* A bundle that is done has the files of the directory in its order.
LEMMA BundleDone ==
  ASSUME NEW job, BundleOK(job), AllDone(job)
  PROVE  Results(job) = Directory
<1>1. PICK k \in 0 .. Len(Directory) : BundleAt(job, k)
  BY DEF BundleOK
<1>2. DOMAIN job.chains = DOMAIN Directory /\ DOMAIN Directory = 1 .. Len(Directory) /\ Len(Directory) \in Nat
  BY DirectoryFacts DEF BundleOK
<1>3. \A c \in DOMAIN Directory : job.chains[c].got = Directory[c]
  <2> TAKE c \in DOMAIN Directory
  <2>1. ~(c > k)
    BY <1>1, <1>2 DEF BundleAt, AllDone
  <2> QED BY <1>1, <1>2, <2>1 DEF BundleAt
<1>4. Directory = [c \in DOMAIN Directory |-> Directory[c]]
  BY WorkerAssumption
<1>5. Results(job) = [c \in DOMAIN Directory |-> job.chains[c].got]
  BY <1>2 DEF Results
<1> QED BY Zenon, <1>3, <1>4, <1>5

RightNext(got, t) ==
  /\ jobs'[t].id # NoId
  /\ jobs'[t].page = 0 => got = Directory
  /\ jobs'[t].page # 0 /\ ~SomethingFailed' => \A c \in DOMAIN got : got[c] = Whole(jobs'[t].page)

\* An answer is right when what the chains have is.
LEMMA PostedRight ==
  ASSUME ControlOK, JobsOK, AnswersRight, NEW t \in Tasks, NEW done \in JobType, Posted(t, done),
         outcome' = outcome, done.id # NoId, jobs[t].id = NoId \/ (jobs[t].id = done.id /\ jobs[t].page = done.page),
         SomethingFailed => SomethingFailed', BundlesOwn', ShownFull'
  PROVE  AnswersRight'
<1>1. /\ \A u \in Tasks : u # t => jobs'[u] = jobs[u]
      /\ SameButAnswered(jobs'[t], done)
      /\ \A i \in DOMAIN toPage' :
              \/ i \in DOMAIN toPage /\ toPage'[i] = toPage[i]
              \/ i \notin DOMAIN toPage /\ toPage'[i].is = "progress"
              \/ IsReply(toPage'[i], t, done)
  BY PostedFacts
<1>2. /\ jobs'[t].id = done.id /\ jobs'[t].page = done.page /\ jobs'[t].chains = done.chains
  BY <1>1 DEF SameButAnswered
<1>3. ASSUME NEW u \in Tasks, NEW got, Right(got, u) PROVE RightNext(got, u)
  <2>1. jobs'[u].id # NoId /\ jobs'[u].page = jobs[u].page
    BY <1>1, <1>2, <1>3 DEF Right
  <2> QED BY <1>3, <2>1 DEF Right, RightNext
<1>4. ASSUME AllDone(done) PROVE RightNext(Results(done), t)
  <2>1. done.page = 0 => Results(done) = Directory
    <3>1. done.page = 0 => BundleOK(jobs'[t])
      BY <1>2 DEF BundlesOwn
    <3>2. AllDone(jobs'[t]) /\ Results(jobs'[t]) = Results(done)
      BY <1>2, <1>4 DEF AllDone, Results
    <3> QED BY <3>1, <3>2, BundleDone
  <2>2. ASSUME done.page # 0, ~SomethingFailed', NEW c \in DOMAIN Results(done)
        PROVE  Results(done)[c] = Whole(done.page)
    <3>1. c \in DOMAIN done.chains /\ Results(done)[c] = done.chains[c].got
      BY <2>2 DEF Results
    <3>2. jobs'[t].chains[c].got = Whole(jobs'[t].page)
      BY <1>2, <1>4, <2>2, <3>1 DEF ShownFull, Chains, AllDone
    <3> QED BY <1>2, <3>1, <3>2
  <2> HIDE DEF AllDone
  <2> DEFINE got == Results(done)
  <2> HIDE DEF got
  <2> QED BY <1>2, <2>1, <2>2 DEF RightNext, got
<1>5. ASSUME NEW i \in DOMAIN toPage', toPage'[i].is = "resolved"
      PROVE  toPage'[i].of \in Tasks /\ RightNext(toPage'[i].got, toPage'[i].of)
  <2>1. CASE i \in DOMAIN toPage /\ toPage'[i] = toPage[i]
    BY <1>3, <1>5, <2>1 DEF AnswersRight
  <2>2. CASE IsReply(toPage'[i], t, done)
    <3>1. toPage'[i].of = t /\ AllDone(done) /\ toPage'[i].got = Results(done)
      BY <1>5, <2>2 DEF IsReply
    <3> QED BY <1>4, <3>1
  <2> QED BY <1>1, <1>5, <2>1, <2>2
<1>6. ASSUME NEW u \in Tasks, outcome'[u].is = "resolved"
      PROVE  RightNext(outcome'[u].got, u)
  BY <1>3, <1>6 DEF AnswersRight
<1>7. AnswersRight' = ( /\ \A i \in DOMAIN toPage' : toPage'[i].is = "resolved" => toPage'[i].of \in Tasks /\ RightNext(toPage'[i].got, toPage'[i].of)
                       /\ \A u \in Tasks : outcome'[u].is = "resolved" => RightNext(outcome'[u].got, u))
  BY DEF AnswersRight, Right, RightNext
<1> QED BY <1>5, <1>6, <1>7

\* A failed chain is not forgotten.
LEMMA FailedStays ==
  ASSUME NEW t \in Tasks, \A u \in Tasks : u # t => jobs'[u] = jobs[u],
         \A c \in Chains(t) : c \in DOMAIN jobs'[t].chains /\ (jobs[t].chains[c].at = "failed" => jobs'[t].chains[c].at = "failed")
  PROVE  SomethingFailed => SomethingFailed'
BY DEF SomethingFailed, Chains

\* What a step of a chain answers is right,
LEMMA PageStepRight ==
  ASSUME TypeInv, OwnInv, BundlesOwn, ShownFull, AnswersRight, NEW t \in Tasks, NEW c \in Chains(t), PageStep(t, c),
         outcome' = outcome
  PROVE  BundlesOwn' /\ ShownFull' /\ AnswersRight'
<1>1. PICK end \in ChainType :
    /\ Posted(t, SetChain(t, c, end))
    /\ jobs[t].page # 0 /\ (jobs[t].chains[c].at = "failed" => end.at = "failed")
    /\ AllFull(doc) /\ end.at # "failed" =>
         /\ AllFull(doc')
         /\ end.at \in {"blob", "done"} =>
              \/ end.got = <<jobs[t].page, Parts(jobs[t].page)>>
              \/ jobs[t].chains[c].at = "blob" /\ end.got = jobs[t].chains[c].got
  BY DEF PageStep
<1>2. ControlOK /\ JobsOK
  BY DEF TypeInv
<1>3. /\ \A u \in Tasks : u # t => jobs'[u] = jobs[u]
      /\ jobs'[t].id = jobs[t].id /\ jobs'[t].page = jobs[t].page /\ DOMAIN jobs'[t].chains = Chains(t)
      /\ jobs'[t].chains[c] = end
      /\ \A e \in Chains(t) : e # c => jobs'[t].chains[e] = jobs[t].chains[e]
  BY <1>1, <1>2, PageStepFacts
<1>4. SomethingFailed => SomethingFailed'
  <2>1. \A e \in Chains(t) : e \in DOMAIN jobs'[t].chains /\ (jobs[t].chains[e].at = "failed" => jobs'[t].chains[e].at = "failed")
    BY <1>1, <1>3
  <2> QED BY <1>3, <2>1, FailedStays
<1>5. BundlesOwn'
  BY <1>1, <1>3 DEF BundlesOwn
<1>6. ShownFull'
  <2> SUFFICES ASSUME ~SomethingFailed'
               PROVE  /\ AllFull(doc')
                      /\ \A u \in Tasks : jobs'[u].page # 0 => \A e \in DOMAIN jobs'[u].chains :
                           jobs'[u].chains[e].at \in {"blob", "done"} => jobs'[u].chains[e].got = Whole(jobs'[u].page)
    BY DEF ShownFull, Chains
  <2>1. AllFull(doc) /\ end.at # "failed"
    BY <1>3, <1>4 DEF ShownFull, SomethingFailed
  <2>2. AllFull(doc')
    BY <1>1, <2>1
  <2>3. ASSUME NEW u \in Tasks, jobs'[u].page # 0, NEW e \in DOMAIN jobs'[u].chains, jobs'[u].chains[e].at \in {"blob", "done"}
        PROVE  jobs'[u].chains[e].got = Whole(jobs'[u].page)
    <3>1. CASE u = t /\ e = c
      <4>1. end.at \in {"blob", "done"}
        BY <1>3, <2>3, <3>1
      <4>2. end.got = Whole(jobs[t].page)
        BY <1>1, <1>4, <2>1, <4>1 DEF ShownFull, Whole
      <4> QED BY <1>3, <3>1, <4>2
    <3>2. CASE ~(u = t /\ e = c)
      <4>1. e \in Chains(u) /\ jobs'[u].chains[e] = jobs[u].chains[e] /\ jobs'[u].page = jobs[u].page
        BY <1>3, <2>3, <3>2 DEF Chains
      <4> QED BY <1>4, <2>3, <4>1 DEF ShownFull
    <3> QED BY <3>1, <3>2
  <2> QED BY <2>2, <2>3
<1>7. AnswersRight'
  <2> DEFINE done == SetChain(t, c, end)
  <2>1. done \in JobType /\ done.id = jobs[t].id /\ done.page = jobs[t].page
    BY <1>2, SetChainFacts
  <2>2. Posted(t, done)
    BY <1>1
  <2>3. jobs[t].id # NoId
    <3>1. jobs[t] # NoJob
      BY <1>1 DEF NoJob
    <3> QED BY <3>1 DEF OwnInv, ClientOwn, JobsOwn
  <2> HIDE DEF done
  <2> QED BY <1>2, <1>4, <1>5, <1>6, <2>1, <2>2, <2>3, PostedRight
<1> QED BY <1>5, <1>6, <1>7

\* what a step of a bundle answers is,
LEMMA FileStepRight ==
  ASSUME TypeInv, OwnInv, PagesOwn, BundlesOwn, ShownFull, AnswersRight, NEW t \in Tasks, NEW c \in Chains(t),
         FileStep(t, c), outcome' = outcome
  PROVE  BundlesOwn' /\ ShownFull' /\ AnswersRight'
<1>1. /\ doc' = doc /\ \A u \in Tasks : u # t => jobs'[u] = jobs[u]
      /\ jobs'[t].id = jobs[t].id /\ jobs'[t].page = 0 /\ jobs[t].page = 0 /\ DOMAIN jobs'[t].chains = Chains(t)
      /\ \A e \in Chains(t) : /\ ChainOK(0, jobs'[t].chains[e])
                              /\ jobs[t].chains[e].at = "failed" => jobs'[t].chains[e].at = "failed"
      /\ BundleOK(jobs[t]) => BundleOK(jobs'[t])
  BY FileStepFacts
<1>2. ControlOK /\ JobsOK
  BY DEF TypeInv
<1>3. SomethingFailed => SomethingFailed'
  <2>1. \A u \in Tasks : u # t => jobs'[u] = jobs[u]
    BY <1>1
  <2>2. \A e \in Chains(t) : e \in DOMAIN jobs'[t].chains /\ (jobs[t].chains[e].at = "failed" => jobs'[t].chains[e].at = "failed")
    BY <1>1
  <2> QED BY <2>1, <2>2, FailedStays
<1>4. BundlesOwn'
  BY <1>1 DEF BundlesOwn
<1>5. ShownFull'
  <2> SUFFICES ASSUME ~SomethingFailed'
               PROVE  /\ AllFull(doc')
                      /\ \A u \in Tasks : jobs'[u].page # 0 => \A e \in DOMAIN jobs'[u].chains :
                           jobs'[u].chains[e].at \in {"blob", "done"} => jobs'[u].chains[e].got = Whole(jobs'[u].page)
    BY DEF ShownFull, Chains
  <2>1. AllFull(doc')
    BY <1>1, <1>3 DEF ShownFull
  <2>2. ASSUME NEW u \in Tasks, jobs'[u].page # 0 PROVE u # t /\ jobs'[u] = jobs[u]
    BY <1>1, <2>2
  <2> QED BY <1>3, <2>1, <2>2 DEF ShownFull, Chains
<1>6. AnswersRight'
  <2>1. GoesOn(t)
    BY FileGoesOn
  <2>2. PICK done \in JobType :
          /\ done.id = jobs[t].id /\ done.page = jobs[t].page /\ done.answered = jobs[t].answered
          /\ Posted(t, done)
    BY <2>1 DEF GoesOn
  <2>3. jobs[t].id # NoId
    <3>1. jobs[t] # NoJob
      BY DEF NoJob, Chains
    <3> QED BY <3>1 DEF OwnInv, ClientOwn, JobsOwn
  <2> QED BY <1>2, <1>3, <1>4, <1>5, <2>2, <2>3, PostedRight
<1> QED BY <1>4, <1>5, <1>6

\* and what is answered at once is.
LEMMA ReceiveRight ==
  ASSUME TypeInv, OwnInv, PagesOwn, BundlesOwn, ShownFull, AnswersRight, Receive
  PROVE  BundlesOwn' /\ ShownFull' /\ AnswersRight'
<1>1. PICK t \in Tasks, done \in JobType :
        /\ Taken(Head(toWorker), done) /\ t = Head(toWorker).task
        /\ jobs[t] = NoJob /\ Chains(t) = {} /\ done.id # NoId
        /\ \A u \in Tasks : u # t => jobs'[u] = jobs[u]
        /\ SameButAnswered(jobs'[t], done)
  BY ReceiveStepFacts
<1>2. ControlOK /\ JobsOK
  BY DEF TypeInv
<1>3. jobs'[t].id = done.id /\ jobs'[t].page = done.page /\ jobs'[t].chains = done.chains /\ jobs'[t].started = done.started
  BY <1>1 DEF SameButAnswered
<1>4. /\ Posted(t, done) /\ (done.page = 0 => BundleOK(done))
      /\ AllFull(doc) /\ (\A c \in DOMAIN done.chains : done.chains[c].at # "failed") =>
           /\ AllFull(doc')
           /\ done.page # 0 => \A c \in DOMAIN done.chains :
                done.chains[c].at \in {"blob", "done"} => done.chains[c].got = <<done.page, Parts(done.page)>>
  BY <1>1 DEF Taken
<1>5. SomethingFailed => SomethingFailed'
  BY <1>1, FailedStays
<1>6. BundlesOwn'
  <2>1. done.page = 0 => BundleOK(jobs'[t])
    BY <1>3, <1>4 DEF BundleOK, BundleAt
  <2> QED BY <1>1, <1>3, <2>1 DEF BundlesOwn
<1>7. ShownFull'
  <2> SUFFICES ASSUME ~SomethingFailed'
               PROVE  /\ AllFull(doc')
                      /\ \A u \in Tasks : jobs'[u].page # 0 => \A e \in DOMAIN jobs'[u].chains :
                           jobs'[u].chains[e].at \in {"blob", "done"} => jobs'[u].chains[e].got = Whole(jobs'[u].page)
    BY DEF ShownFull, Chains
  <2>1. AllFull(doc) /\ \A c \in DOMAIN done.chains : done.chains[c].at # "failed"
    BY <1>3, <1>5 DEF ShownFull, SomethingFailed
  <2>2. ASSUME NEW u \in Tasks, jobs'[u].page # 0, NEW e \in DOMAIN jobs'[u].chains, jobs'[u].chains[e].at \in {"blob", "done"}
        PROVE  jobs'[u].chains[e].got = Whole(jobs'[u].page)
    <3>1. CASE u = t
      BY <1>3, <1>4, <2>1, <2>2, <3>1 DEF Whole
    <3>2. CASE u # t
      BY <1>1, <1>5, <2>2, <3>2 DEF ShownFull, Chains
    <3> QED BY <3>1, <3>2
  <2> QED BY <1>4, <2>1, <2>2
<1>8. AnswersRight'
  <2>1. jobs[t].id = NoId
    BY <1>1 DEF NoJob
  <2>2. outcome' = outcome
    BY Zenon DEF Receive
  <2>3. done.id # NoId /\ Posted(t, done)
    BY <1>1, <1>4
  <2> QED BY <1>2, <1>5, <1>6, <1>7, <2>1, <2>2, <2>3, PostedRight
<1> QED BY <1>6, <1>7, <1>8

\* The steps of the page.
LEMMA PageRight ==
  ASSUME BundlesOwn, ShownFull, AnswersRight, jobs' = jobs, doc' = doc,
         \A i \in DOMAIN toPage' : toPage'[i].is = "resolved" => \E j \in DOMAIN toPage : toPage[j] = toPage'[i],
         \A t \in Tasks : outcome'[t].is = "resolved" => outcome'[t] = outcome[t] \/ Right(outcome'[t].got, t)
  PROVE  BundlesOwn' /\ ShownFull' /\ AnswersRight'
<1>1. \A got : \A t \in Tasks : Right(got, t)' <=> Right(got, t)
  BY DEF Right, SomethingFailed
<1>2. AnswersRight'
  BY <1>1 DEF AnswersRight
<1>3. BundlesOwn'
  BY DEF BundlesOwn
<1>4. ShownFull'
  BY DEF ShownFull, SomethingFailed, Chains
<1> QED BY <1>2, <1>3, <1>4

AllRight == BundlesOwn /\ ShownFull /\ AnswersRight

\* A promise asked for is not resolved,
LEMMA AskRight ==
  ASSUME ControlOK, AllRight, NEW t \in Tasks, NEW command \in Commands, Ask(t, command)
  PROVE  AllRight'
<1>1. outcome' = [outcome EXCEPT ![t] = Open]
  BY AskTypes
<1>2. toPage' = toPage /\ jobs' = jobs /\ doc' = doc
  BY Zenon DEF Ask
<1>3. outcome \in [Tasks -> OutcomeType]
  BY DEF ControlOK
<1>4. \A u \in Tasks : outcome'[u].is = "resolved" => outcome'[u] = outcome[u]
  BY <1>1, <1>3 DEF Open
<1> QED BY <1>2, <1>4, PageRight DEF AllRight

\* nor is one given up;
LEMMA GivesUpRight ==
  ASSUME ControlOK, AllRight, NEW ts, GivesUp(ts)
  PROVE  AllRight'
<1>1. toPage' = toPage /\ jobs' = jobs /\ doc' = doc /\ Abandon(ts) /\ ts \in SUBSET Tasks
  BY DEF GivesUp
<1>2. \A u \in Tasks : outcome'[u].is = "resolved" => outcome'[u] = outcome[u]
  <2>1. /\ \A u \in Tasks : u \notin ts => outcome'[u] = outcome[u]
        /\ \A u \in ts : outcome'[u].is = "cancelled"
    BY <1>1, AbandonFacts
  <2> QED BY <2>1
<1> QED BY <1>1, <1>2, PageRight DEF AllRight

\* (a message that is left was there)
LEMMA TailMessages ==
  ASSUME ControlOK, toPage # << >>, toPage' = Tail(toPage)
  PROVE  \A i \in DOMAIN toPage' : \E j \in DOMAIN toPage : toPage[j] = toPage'[i]
<1>1. toPage \in Seq(MessageType)
  BY DEF ControlOK
<1>2. \A i \in DOMAIN Tail(toPage) : i + 1 \in DOMAIN toPage /\ Tail(toPage)[i] = toPage[i + 1]
  BY <1>1, HeadTail
<1> QED BY <1>2

\* one that is resolved is so by the message of its own command;
LEMMA AnswerRight ==
  ASSUME ControlOK, AllRight, AnswersOwn', HandleAnswer
  PROVE  AllRight'
<1> DEFINE message == Head(toPage)
<1>1. /\ toPage # << >> /\ toPage' = Tail(toPage)
      /\ Settles(message) \/ GoesOnWith(message) \/ Rests(message)
      /\ jobs' = jobs /\ doc' = doc
  BY AnswerFacts
<1>2. toPage \in Seq(MessageType) /\ outcome \in [Tasks -> OutcomeType] /\ client \in ClientType
  BY DEF ControlOK
<1>3. message = toPage[1] /\ 1 \in DOMAIN toPage
  BY <1>1, <1>2, HeadTail
<1>4. \A i \in DOMAIN toPage' : \E j \in DOMAIN toPage : toPage[j] = toPage'[i]
  BY <1>1, TailMessages
<1>5. message.is = "resolved" => message.of \in Tasks /\ Right(message.got, message.of)
  BY <1>3 DEF AllRight, AnswersRight
<1> HIDE DEF message
<1>6. \A u \in Tasks : outcome'[u].is = "resolved" => outcome'[u] = outcome[u] \/ Right(outcome'[u].got, u)
  <2>1. CASE outcome' = outcome
    BY <2>1
  <2>2. CASE Settles(message)
    <3> DEFINE new == [is |-> message.is, of |-> message.of, got |-> message.got]
    <3>1. client.current \in Tasks /\ outcome' = [outcome EXCEPT ![client.current] = new]
      BY <1>2, <2>2 DEF Settles, ClientType, Taskless
    <3>2. new.is = message.is /\ new.of = message.of /\ new.got = message.got
      OBVIOUS
    <3> HIDE DEF new
    <3>3. outcome'[client.current] = new /\ \A u \in Tasks : u # client.current => outcome'[u] = outcome[u]
      BY <1>2, <3>1
    <3>4. new.is = "resolved" => new.of = client.current
      BY <3>1, <3>3 DEF AnswersOwn
    <3> QED BY <1>5, <3>2, <3>3, <3>4
  <2> QED BY <1>1, <2>1, <2>2 DEF GoesOnWith, Rests
<1> QED BY <1>1, <1>4, <1>6, PageRight DEF AllRight

\* progress
LEMMA ProgressRight ==
  ASSUME ControlOK, AllRight, HandleProgress
  PROVE  AllRight'
<1>1. toPage # << >> /\ toPage' = Tail(toPage) /\ jobs' = jobs /\ doc' = doc /\ outcome' = outcome
  BY ProgressTypes
<1>2. \A i \in DOMAIN toPage' : \E j \in DOMAIN toPage : toPage[j] = toPage'[i]
  BY <1>1, TailMessages
<1> QED BY <1>1, <1>2, PageRight DEF AllRight

\* and errors resolve none;
LEMMA ErrorRight ==
  ASSUME ControlOK, AllRight, WorkerError
  PROVE  AllRight'
<1> DEFINE error == Message("error", NoId, NoTask, << >>)
<1>1. toPage' = Append(toPage, error) /\ jobs' = jobs /\ doc' = doc /\ outcome' = outcome
  BY ErrorTypes
<1>2. error.is # "resolved"
  BY DEF Message
<1> HIDE DEF error
<1>3. toPage \in Seq(MessageType)
  BY DEF ControlOK
<1>4. \A i \in DOMAIN toPage' : toPage'[i].is = "resolved" => \E j \in DOMAIN toPage : toPage[j] = toPage'[i]
  BY <1>1, <1>2, <1>3
<1> QED BY <1>1, <1>4, PageRight DEF AllRight

\* nor does a step that changes nothing.
LEMMA SameRight ==
  ASSUME AllRight, UNCHANGED vars
  PROVE  AllRight'
<1>1. toPage' = toPage /\ outcome' = outcome /\ jobs' = jobs /\ doc' = doc
  BY DEF vars
<1> QED BY <1>1, PageRight DEF AllRight

-----------------------------------------------------------------------------
(* What the document counts. *)

\* A page that arrives and waits for shared files is counted before it is listed: Taking is that count.
LEMMA PageStepMemory ==
  ASSUME TypeInv, MemoryInv, NEW t \in Tasks, NEW c \in Chains(t), PageStep(t, c)
  PROVE  MemoryInv'
<1> SUFFICES ASSUME doc'.kind = "indirect"
             PROVE  Listed(doc') /\ IsFiniteSet(Taking') /\ Slack(doc') >= Base + Cardinality(Taking')
  BY DEF MemoryInv
<1>1. PICK end \in ChainType :
    /\ Posted(t, SetChain(t, c, end))
    /\ Grows(doc, doc', jobs[t].page, <<jobs[t].id, c>>)
    /\ doc.kind = "indirect" => Slack(doc') - Counts(end) >= Slack(doc) - Counts(jobs[t].chains[c])
  BY DEF PageStep
<1>2. ControlOK /\ JobsOK /\ DocOK(doc)
  BY DEF TypeInv, ObjectsOK
<1>3. /\ \A u \in Tasks : u # t => jobs'[u] = jobs[u]
      /\ DOMAIN jobs'[t].chains = Chains(t)
      /\ jobs'[t].chains[c] = end
      /\ \A e \in Chains(t) : e # c => jobs'[t].chains[e] = jobs[t].chains[e]
  BY <1>1, <1>2, PageStepFacts
<1>4. doc.kind = "indirect" /\ Listed(doc') /\ IsFiniteSet(Taking) /\ DocOK(doc')
      /\ Slack(doc) >= Base + Cardinality(Taking)
  BY <1>1 DEF Grows, MemoryInv
<1> DEFINE p == <<t, c>>
           Rest == Taking \ {p}
<1>5. p \in Tasks \X Nat
  BY <1>2, ChainFacts
<1>6. Taking = IF Counts(jobs[t].chains[c]) = 1 THEN Rest \union {p} ELSE Rest
  BY <1>5 DEF Taking, Counts
<1>7. Taking' = IF Counts(end) = 1 THEN Rest \union {p} ELSE Rest
  <2>1. \A q \in Tasks \X Nat : q # p => (q \in Taking' <=> q \in Taking)
    <3> TAKE q \in Tasks \X Nat
    <3>1. ASSUME q # p PROVE q \in Taking' <=> q \in Taking
      <4>1. CASE q[1] = t
        BY <1>3, <3>1, <4>1 DEF Taking, Chains
      <4>2. CASE q[1] # t
        BY <1>3, <4>2 DEF Taking, Chains
      <4> QED BY <4>1, <4>2
    <3> QED BY <3>1
  <2>2. p \in Taking' <=> Counts(end) = 1
    BY <1>3, <1>5 DEF Taking, Counts, Chains
  <2>3. Taking' \subseteq Tasks \X Nat /\ Taking \subseteq Tasks \X Nat
    BY DEF Taking
  <2> QED BY <2>1, <2>2, <2>3
<1>8. p \notin Rest /\ IsFiniteSet(Rest)
  BY <1>4, FS_Subset
<1> HIDE DEF Rest, p
<1>9. /\ IsFiniteSet(Rest \union {p}) /\ Cardinality(Rest \union {p}) = Cardinality(Rest) + 1 /\ Cardinality(Rest) \in Nat
  BY <1>8, FS_AddElement, FS_CardinalityType
<1> DEFINE k == Cardinality(Rest)
           now == Cardinality(Taking')
           then == Cardinality(Taking)
           a == Counts(jobs[t].chains[c])
           b == Counts(end)
           s == Slack(doc)
           r == Slack(doc')
<1>10. /\ a \in {0, 1} /\ b \in {0, 1}
       /\ then = (IF a = 1 THEN k + 1 ELSE k)
       /\ now = (IF b = 1 THEN k + 1 ELSE k)
  BY <1>6, <1>7, <1>9 DEF Counts
<1>11. s \in Int /\ r \in Int /\ k \in Nat /\ Base \in Int /\ s >= Base + then /\ r - b >= s - a
  BY <1>1, <1>2, <1>4, <1>9, SlackType DEF Base
<1>12. IsFiniteSet(Taking')
  BY <1>7, <1>8, <1>9
<1> HIDE DEF k, now, then, a, b, s, r
<1>13. r >= Base + now
  BY <1>10, <1>11
<1> QED BY <1>4, <1>12, <1>13 DEF r, now

\* The files of a bundle are not counted,
LEMMA FileStepMemory ==
  ASSUME TypeInv, PagesOwn, MemoryInv, NEW t \in Tasks, NEW c \in Chains(t), FileStep(t, c)
  PROVE  MemoryInv'
<1>1. /\ doc' = doc /\ \A u \in Tasks : u # t => jobs'[u] = jobs[u]
      /\ jobs'[t].page = 0 /\ jobs[t].page = 0 /\ DOMAIN jobs'[t].chains = Chains(t)
      /\ \A e \in Chains(t) : ChainOK(0, jobs'[t].chains[e])
  BY FileStepFacts
<1>2. \A e \in Chains(t) : ChainOK(0, jobs[t].chains[e])
  BY <1>1 DEF PagesOwn, HeldOwn
<1>3. Taking' = Taking
  <2>1. \A q \in Tasks \X Nat : q \in Taking' <=> q \in Taking
    <3> TAKE q \in Tasks \X Nat
    <3>1. CASE q[1] = t
      BY <1>1, <1>2, <3>1 DEF Taking, Chains, ChainOK
    <3>2. CASE q[1] # t
      BY <1>1, <3>2 DEF Taking, Chains
    <3> QED BY <3>1, <3>2
  <2>2. Taking' \subseteq Tasks \X Nat /\ Taking \subseteq Tasks \X Nat
    BY DEF Taking
  <2> QED BY <2>1, <2>2
<1> QED BY <1>1, <1>3 DEF MemoryInv

\* nor does a command that is received count or take any;
LEMMA ReceiveMemory ==
  ASSUME TypeInv, PagesOwn, OwnInv, MemoryInv, Receive
  PROVE  MemoryInv'
<1>1. PICK t \in Tasks, done \in JobType :
        /\ Taken(Head(toWorker), done) /\ t = Head(toWorker).task
        /\ jobs[t] = NoJob /\ Chains(t) = {} /\ done.id # NoId
        /\ \A u \in Tasks : u # t => jobs'[u] = jobs[u]
        /\ SameButAnswered(jobs'[t], done)
  BY ReceiveStepFacts
<1> SUFFICES ASSUME doc'.kind = "indirect"
             PROVE  Listed(doc') /\ IsFiniteSet(Taking') /\ Slack(doc') >= Base + Cardinality(Taking')
  BY DEF MemoryInv
<1>2. Touches(doc, doc') /\ \A c \in DOMAIN done.chains : doc.kind = "indirect" => Counts(done.chains[c]) = 0
  BY <1>1 DEF Taken
<1>3. /\ doc.kind = "indirect" /\ doc'.pages = doc.pages /\ doc'.loaded = doc.loaded
      /\ doc'.usage = doc.usage /\ doc'.djvi = doc.djvi
  BY <1>2 DEF Touches, SameFiles
<1>4. Listed(doc') /\ Slack(doc') = Slack(doc)
  BY <1>3 DEF Listed, Slack, MemoryInv
<1>5. Taking' = Taking
  <2>1. \A q \in Tasks \X Nat : q \in Taking' <=> q \in Taking
    <3> TAKE q \in Tasks \X Nat
    <3>1. CASE q[1] = t
      BY <1>1, <1>2, <1>3, <3>1 DEF Taking, Chains, Counts, SameButAnswered
    <3>2. CASE q[1] # t
      BY <1>1, <3>2 DEF Taking, Chains
    <3> QED BY <3>1, <3>2
  <2>2. Taking' \subseteq Tasks \X Nat /\ Taking \subseteq Tasks \X Nat
    BY SMTT(30) DEF Taking
  <2> QED BY <2>1, <2>2
<1> QED BY <1>3, <1>4, <1>5 DEF MemoryInv

\* nor does the page.
LEMMA SameMemory ==
  ASSUME MemoryInv, jobs' = jobs, doc' = doc
  PROVE  MemoryInv'
BY DEF MemoryInv, Taking, Chains

IInv == TypeInv /\ PagesOwn /\ OneInv /\ OwnInv /\ AllRight /\ MemoryInv

-----------------------------------------------------------------------------
(* The initial states. *)

\* A document that was opened holds what it counts.
LEMMA OpenedFacts ==
  ASSUME NEW kind \in Kinds, NEW limit \in MemoryLimits
  PROVE  LET d == Opened(kind, limit) IN
         /\ DocOK(d) /\ AllFull(d) /\ d.kind = kind
         /\ \A o \in DOMAIN d.objs : o[1] = 0
         /\ \A n \in PageNumbers : d.pages[n] # Absent => IsObject(d, d.pages[n]) /\ d.objs[d.pages[n]].page = n
         /\ kind = "indirect" => Listed(d) /\ Slack(d) = Base
<1> DEFINE ids == {<<0, n>> : n \in PageNumbers}
           objs == [o \in ids |-> Raw(o[2])]
           pages == [n \in PageNumbers |-> IF kind = "indirect" THEN Absent ELSE <<0, n>>]
           djvi == IF kind = "bundled" THEN Shared ELSE {}
           d == [kind |-> kind, limit |-> limit, loaded |-> << >>, usage |-> Base, last |-> Absent,
                 depsLoaded |-> FALSE, djvi |-> djvi, pages |-> pages, objs |-> objs]
<1>1. Opened(kind, limit) = d
  BY DEF Opened
<1>2. ids \subseteq ObjectId /\ \A o \in ids : o[1] = 0 /\ o[2] \in PageNumbers /\ o # Absent
  BY NeedsFacts DEF ObjectId, Absent
<1>3. \A n \in PageNumbers : <<0, n>> \in ids /\ objs[<<0, n>>] = Raw(n)
  OBVIOUS
<1>4. objs \in [ids -> PageType] /\ DOMAIN objs = ids
  BY <1>2, RawFacts
<1>5. \A o \in ids : ~objs[o].info
  BY <1>2, RawFacts
<1>6. pages \in [PageNumbers -> ObjectId] /\ djvi \in SUBSET Shared
  BY NeedsFacts DEF Absent, ObjectId
<1>7. \A n \in PageNumbers : pages[n] # Absent => pages[n] = <<0, n>>
  OBVIOUS
<1>8. kind = "indirect" => djvi = {} /\ \A n \in PageNumbers : pages[n] = Absent
  OBVIOUS
<1>9. kind \in {"bundled", "indirect", "single"} /\ limit \in Nat
  BY WorkerAssumption
<1>10. objs \in ObjectsType
  BY <1>2, <1>4 DEF ObjectsType
<1>11. << >> \in Seq(PageNumbers) /\ Base \in Int /\ Absent \in ObjectId /\ Len(<< >>) = 0
  BY DEF Base, Absent, ObjectId
<1>12. \A n \in PageNumbers : Raw(n).page = n
  BY RawFacts
<1> HIDE DEF ids, objs, pages, djvi
<1>13. /\ d.kind = kind /\ d.limit = limit /\ d.loaded = << >> /\ d.usage = Base /\ d.last = Absent
       /\ d.depsLoaded = FALSE /\ d.djvi = djvi /\ d.pages = pages /\ d.objs = objs
  OBVIOUS
<1>14. d \in DocType
  BY <1>6, <1>9, <1>10, <1>11 DEF DocType
<1> HIDE DEF d
<1>15. ~IsObject(d, Absent) /\ d.last = Absent
  BY <1>2, <1>4, <1>13 DEF IsObject
<1>16. \A n \in PageNumbers : d.pages[n] # Absent => IsObject(d, d.pages[n]) /\ d.objs[d.pages[n]].page = n
  BY <1>3, <1>4, <1>7, <1>12, <1>13 DEF IsObject
<1>17. AllFull(d) /\ \A o \in DOMAIN d.objs : o[1] = 0
  BY <1>2, <1>4, <1>5, <1>13 DEF AllFull, Full
<1>18. ASSUME kind = "indirect" PROVE Listed(d) /\ Slack(d) = Base
  <2>1. Cardinality({}) = 0
    BY FS_EmptySet
  <2>2. Slack(d) = Base - Len(<< >>) - 0
    BY <1>8, <1>13, <1>18, <2>1 DEF Slack
  <2>3. Listed(d)
    BY <1>8, <1>13, <1>18 DEF Listed
  <2> QED BY <2>2, <2>3 DEF Base
<1>19. DocOK(d)
  BY <1>14, <1>15, <1>16 DEF DocOK
<1> QED BY <1>1, <1>13, <1>16, <1>17, <1>18, <1>19

\* The invariant holds at first.
LEMMA InitIInv == Init => IInv
<1> SUFFICES ASSUME Init PROVE IInv
  OBVIOUS
<1>1. /\ outcome = [t \in Tasks |-> Unasked]
      /\ client = [queue |-> << >>, current |-> NoTask, id |-> NoId, counter |-> 1,
                   working |-> FALSE, hyper |-> {}]
      /\ toWorker = << >> /\ toPage = << >>
      /\ jobs = [t \in Tasks |-> NoJob]
      /\ failures = 0 /\ errors = 0
  BY Zenon DEF Init
<1>2. PICK kind \in Kinds, limit \in MemoryLimits : doc = Opened(kind, limit)
  BY Zenon DEF Init
<1>3. /\ DocOK(doc) /\ AllFull(doc) /\ doc.kind = kind
      /\ \A o \in DOMAIN doc.objs : o[1] = 0
      /\ \A n \in PageNumbers : doc.pages[n] # Absent => IsObject(doc, doc.pages[n]) /\ doc.objs[doc.pages[n]].page = n
      /\ kind = "indirect" => Listed(doc) /\ Slack(doc) = Base
  BY <1>2, OpenedFacts
<1>4. Unasked \in OutcomeType /\ Unasked.is = "unasked"
  BY OpenType DEF Unasked, OutcomeType
<1>5. NoJob \in JobType /\ DOMAIN NoJob.chains = {} /\ NoJob.answered /\ NoJob.id = NoId
  <2>1. << >> \in Seq(ChainType) /\ DOMAIN << >> = {}
    OBVIOUS
  <2> QED BY <2>1 DEF NoJob, JobType, NoId
<1>6. client \in ClientType
  <2>1. << >> \in Seq(Tasks \X Commands)
    OBVIOUS
  <2> QED BY <1>1, <2>1 DEF ClientType, Taskless, NoTask, NoId
<1>7. /\ \A t \in Tasks : outcome[t] = Unasked
      /\ \A t \in Tasks : jobs[t] = NoJob
      /\ client.queue = << >> /\ client.current = NoTask /\ client.id = NoId /\ client.counter = 1
      /\ ~client.working
  BY <1>1
<1>8. ControlOK
  <2>1. << >> \in Seq(CommandType) /\ << >> \in Seq(MessageType)
    OBVIOUS
  <2> QED BY <1>1, <1>4, <1>6, <2>1 DEF ControlOK
<1>9. JobsOK
  BY <1>1, <1>5 DEF JobsOK
<1>10. \A t \in Tasks : Chains(t) = {}
  BY <1>5, <1>7 DEF Chains
<1>11. ObjectsOK
  BY <1>3, <1>10 DEF ObjectsOK, Chains
<1>12. PagesOwn
  BY <1>3, <1>10 DEF PagesOwn, HeldOwn, MadeOwn, KeptOwn
<1>13. OneInv
  <2>1. AllAnswered /\ NoAnswer /\ DOMAIN toPage = {}
    BY <1>1, <1>5, <1>7 DEF AllAnswered, NoAnswer
  <2> QED BY <1>1, <1>7, <2>1 DEF OneInv, Idle
<1>14. OwnInv
  <2>1. DOMAIN client.queue = {} /\ DOMAIN toWorker = {} /\ DOMAIN toPage = {}
    BY <1>1, <1>7
  <2>2. QueueOwn(client, outcome)
    BY <1>5, <1>7, <2>1 DEF QueueOwn, NotSent, InTransit, NoTask, Tasks
  <2>3. TransitOwn(client) /\ JobsOwn(client) /\ CurrentOwn(client)
    BY <1>5, <1>7, <2>1 DEF TransitOwn, JobsOwn, CurrentOwn, NoId
  <2>4. AnswersOwn
    BY <1>4, <1>7, <2>1 DEF AnswersOwn
  <2> QED BY <2>2, <2>3, <2>4 DEF OwnInv, ClientOwn
<1>15. AllRight
  <2>1. DOMAIN toPage = {}
    BY <1>1
  <2>2. BundlesOwn
    BY <1>5, <1>7 DEF BundlesOwn
  <2>3. ShownFull
    BY <1>3, <1>10 DEF ShownFull
  <2>4. AnswersRight
    BY <1>4, <1>7, <2>1 DEF AnswersRight
  <2> QED BY <2>2, <2>3, <2>4 DEF AllRight
<1>16. MemoryInv
  <2>1. Taking = {}
    BY <1>10 DEF Taking
  <2>2. IsFiniteSet({}) /\ Cardinality({}) = 0
    BY FS_EmptySet
  <2> QED BY <1>3, <2>1, <2>2 DEF MemoryInv, Base
<1> QED BY <1>8, <1>9, <1>11, <1>12, <1>13, <1>14, <1>15, <1>16 DEF IInv, TypeInv

-----------------------------------------------------------------------------
(* The steps. *)

\* A held object is an object.
LEMMA HeldObjects ==
  ASSUME DocOK(doc'), PagesOwn'
  PROVE  ObjectsOK'
BY DEF ObjectsOK, PagesOwn, HeldOwn, Chains

\* The page's steps leave the worker's objects.
LEMMA SameObjects ==
  ASSUME ObjectsOK, PagesOwn, jobs' = jobs, doc' = doc
  PROVE  ObjectsOK' /\ PagesOwn' /\ JobsOK' = JobsOK
BY DEF ObjectsOK, PagesOwn, HeldOwn, MadeOwn, KeptOwn, Chains, JobsOK

\* A step of the page keeps what is about the worker.
LEMMA PageActionStep ==
  ASSUME IInv, jobs' = jobs, doc' = doc, ControlOK', OneInv', OwnInv', AllRight'
  PROVE  IInv'
<1>1. MemoryInv'
  BY SameMemory DEF IInv
<1>2. ObjectsOK' /\ PagesOwn' /\ JobsOK'
  BY SameObjects DEF IInv, TypeInv
<1> QED BY <1>1, <1>2 DEF IInv, TypeInv

\* A step of a chain or of a bundle keeps the invariant,
LEMMA WorkerActionStep ==
  ASSUME IInv, NEW t \in Tasks, NEW c \in Chains(t), PageStep(t, c) \/ FileStep(t, c),
         outcome' = outcome, client' = client, toWorker' = toWorker, errors' = errors, failures' \in Nat
  PROVE  IInv'
<1>1. TypeInv /\ PagesOwn /\ OneInv /\ OwnInv /\ AllRight /\ MemoryInv /\ ControlOK /\ JobsOK
      /\ BundlesOwn /\ ShownFull /\ AnswersRight
  BY DEF IInv, TypeInv, AllRight
<1>2. GoesOn(t)
  BY <1>1, PageGoesOn, FileGoesOn
<1>3. PagesOwn' /\ DocOK(doc')
  BY <1>1, PagesStep, FilesStep
<1>4. ControlOK' /\ JobsOK'
  <2>1. PICK done \in JobType : Posted(t, done)
    BY <1>2 DEF GoesOn
  <2>2. toWorker' \in Seq(CommandType)
    BY <1>1 DEF ControlOK
  <2> QED BY <1>1, <2>1, <2>2, WorkerTypes
<1>5. OneInv'
  BY <1>1, <1>2, GoesOnOne
<1>6. OwnInv'
  <2>1. jobs[t] # NoJob
    BY DEF NoJob, Chains
  <2> QED BY <1>1, <1>2, <2>1, GoesOnOwn
<1>7. AllRight'
  BY <1>1, PageStepRight, FileStepRight DEF AllRight
<1>8. MemoryInv'
  BY <1>1, PageStepMemory, FileStepMemory
<1>9. ObjectsOK'
  BY <1>3, HeldObjects
<1> QED BY <1>3, <1>4, <1>5, <1>6, <1>7, <1>8, <1>9 DEF IInv, TypeInv

\* so whatever arrives or fails does;
LEMMA ArrivesStep ==
  ASSUME IInv, NEW t \in Tasks, NEW c \in DOMAIN jobs[t].chains, Arrives(t, c) \/ LoadFails(t, c)
  PROVE  IInv'
<1>1. TypeInv /\ PagesOwn /\ JobsOwn(client) /\ c \in Chains(t) /\ failures \in Nat
  BY DEF IInv, OwnInv, ClientOwn, Chains, TypeInv, ControlOK
<1>2. CASE PageArrives(t, c)
  <2>1. outcome' = outcome /\ client' = client /\ toWorker' = toWorker /\ errors' = errors /\ failures' = failures
    BY <1>2, Zenon DEF PageArrives
  <2> QED BY <1>1, <1>2, <2>1, PageArrivesFacts, WorkerActionStep
<1>3. ASSUME NEW id \in Shared, PartArrives(t, c, id) PROVE IInv'
  <2>1. outcome' = outcome /\ client' = client /\ toWorker' = toWorker /\ errors' = errors /\ failures' = failures
    BY <1>3, Zenon DEF PartArrives
  <2> QED BY <1>1, <1>3, <2>1, PartArrivesFacts, WorkerActionStep
<1>4. CASE BlobMade(t, c)
  <2>1. outcome' = outcome /\ client' = client /\ toWorker' = toWorker /\ errors' = errors /\ failures' = failures
    BY <1>4, Zenon DEF BlobMade
  <2> QED BY <1>1, <1>4, <2>1, BlobMadeFacts, WorkerActionStep
<1>5. CASE FileArrives(t, c)
  <2>1. outcome' = outcome /\ client' = client /\ toWorker' = toWorker /\ errors' = errors /\ failures' = failures
    BY <1>5, Zenon DEF FileArrives
  <2> QED BY <1>1, <1>5, <2>1, FileArrivesFacts, WorkerActionStep
<1>6. CASE LoadFails(t, c)
  <2>1. outcome' = outcome /\ client' = client /\ toWorker' = toWorker /\ errors' = errors /\ failures' = failures + 1
    BY <1>6, Zenon DEF LoadFails
  <2>2. failures' \in Nat
    BY <1>1, <2>1
  <2> QED BY <1>1, <1>6, <2>1, <2>2, LoadFailsFacts, WorkerActionStep
<1> QED BY <1>2, <1>3, <1>4, <1>5, <1>6 DEF Arrives

\* and a command received does.
LEMMA ReceiveIInv ==
  ASSUME IInv, Receive
  PROVE  IInv'
<1>1. TypeInv /\ PagesOwn /\ OneInv /\ OwnInv /\ AllRight /\ MemoryInv
      /\ BundlesOwn /\ ShownFull /\ AnswersRight
  BY DEF IInv, AllRight
<1>2. PagesOwn' /\ DocOK(doc')
  BY <1>1, ReceiveStep
<1>3. OneInv' /\ ControlOK' /\ JobsOK'
  BY <1>1, ReceiveOne
<1>4. OwnInv'
  BY <1>1, ReceiveOwn
<1>5. AllRight'
  BY <1>1, ReceiveRight DEF AllRight
<1>6. MemoryInv'
  BY <1>1, ReceiveMemory
<1>7. ObjectsOK'
  BY <1>2, HeldObjects
<1> QED BY <1>2, <1>3, <1>4, <1>5, <1>6, <1>7 DEF IInv, TypeInv

\* The invariant is inductive.
LEMMA NextIInv == IInv /\ [Next]_vars => IInv'
<1> SUFFICES ASSUME IInv, [Next]_vars PROVE IInv'
  OBVIOUS
<1>1. /\ TypeInv /\ PagesOwn /\ OneInv /\ OwnInv /\ AllRight /\ MemoryInv /\ ControlOK /\ JobsOK
      /\ QueueOwn(client, outcome)
  BY DEF IInv, TypeInv, OwnInv, ClientOwn
<1>2. ASSUME NEW t \in Tasks, NEW command \in Commands, Ask(t, command) PROVE IInv'
  <2>1. jobs' = jobs /\ doc' = doc
    BY <1>2, Zenon DEF Ask
  <2>2. ControlOK'
    BY <1>1, <1>2, AskTypes
  <2>3. OneInv' /\ OwnInv' /\ AllRight'
    BY <1>1, <1>2, AskOne, AskOwn, AskRight
  <2> QED BY <2>1, <2>2, <2>3, PageActionStep
<1>3. ASSUME NEW ts, GivesUp(ts) PROVE IInv'
  <2>1. jobs' = jobs /\ doc' = doc
    BY <1>3 DEF GivesUp
  <2>2. ControlOK' /\ OneInv' /\ OwnInv' /\ AllRight'
    BY <1>1, <1>3, GivesUpTypes, GivesUpOne, GivesUpOwn, GivesUpRight
  <2> QED BY <2>1, <2>2, PageActionStep
<1>4. ASSUME NEW t \in Tasks, Cancel(t) PROVE IInv'
  BY <1>1, <1>3, <1>4, CancelGivesUp
<1>5. CASE EmptyTaskQueue
  BY <1>1, <1>3, <1>5, EmptyGivesUp
<1>6. CASE CancelAllTasks
  BY <1>1, <1>3, <1>6, CancelAllGivesUp
<1>7. CASE HandleAnswer
  <2>1. jobs' = jobs /\ doc' = doc
    BY <1>1, <1>7, AnswerFacts
  <2>2. ControlOK' /\ OneInv' /\ OwnInv'
    BY <1>1, <1>7, AnswerTypes, AnswerOne, AnswerOwn
  <2>3. AllRight'
    BY <1>1, <1>7, <2>2, AnswerRight DEF OwnInv
  <2> QED BY <2>1, <2>2, <2>3, PageActionStep
<1>8. CASE HandleProgress
  <2>1. jobs' = jobs /\ doc' = doc /\ ControlOK'
    BY <1>1, <1>8, ProgressTypes
  <2>2. OneInv' /\ OwnInv' /\ AllRight'
    BY <1>1, <1>8, ProgressOne, ProgressOwn, ProgressRight
  <2> QED BY <2>1, <2>2, PageActionStep
<1>9. CASE WorkerError
  <2>1. jobs' = jobs /\ doc' = doc /\ ControlOK' /\ errors' # 0
    BY <1>1, <1>9, ErrorTypes
  <2>2. OneInv'
    BY <2>1 DEF OneInv
  <2>3. OwnInv' /\ AllRight'
    BY <1>1, <1>9, ErrorOwn, ErrorRight
  <2> QED BY <2>1, <2>2, <2>3, PageActionStep
<1>10. CASE Receive
  BY <1>10, ReceiveIInv
<1>11. ASSUME NEW t \in Tasks, NEW c \in DOMAIN jobs[t].chains, Arrives(t, c) \/ LoadFails(t, c) PROVE IInv'
  BY <1>11, ArrivesStep
<1>12. CASE UNCHANGED vars
  <2>1. jobs' = jobs /\ doc' = doc /\ outcome' = outcome /\ client' = client /\ toWorker' = toWorker
        /\ toPage' = toPage /\ errors' = errors /\ failures' = failures
    BY <1>12 DEF vars
  <2>2. ControlOK'
    BY <1>1, <2>1 DEF ControlOK
  <2>3. OneInv'
    BY <1>1, <2>1 DEF OneInv, Idle, Sending, Working, Answered, AllAnswered, NoAnswer
  <2>4. OwnInv'
    BY <1>1, <2>1, SameOwn DEF OwnInv, AnswersOwn
  <2>5. AllRight'
    BY <1>1, <1>12, SameRight
  <2> QED BY <2>1, <2>2, <2>3, <2>4, <2>5, PageActionStep
<1> QED BY Zenon, <1>2, <1>4, <1>5, <1>6, <1>7, <1>8, <1>9, <1>10, <1>11, <1>12 DEF Next, Handles, Answers

\* The invariant always holds.
LEMMA Invariance == Spec => []IInv
BY InitIInv, NextIInv, PTL DEF Spec

-----------------------------------------------------------------------------
\* The page, the worker and the messages between them keep their types, and a chain that holds a page
\* object holds one the document has.
THEOREM WorkerIsTyped == Spec => []TypeInv
<1>1. IInv => TypeInv
  BY DEF IInv
<1> QED BY <1>1, Invariance, PTL

\* The worker's one command is the only one.
LEMMA OneFollows == TypeInv /\ OneInv => OneAtATime
<1> SUFFICES ASSUME TypeInv, OneInv, errors = 0
             PROVE  Cardinality({t \in Tasks : ~jobs[t].answered}) + Len(toWorker) <= 1
  BY DEF OneAtATime
<1> DEFINE S == {t \in Tasks : ~jobs[t].answered}
<1>1. Idle \/ Sending \/ Working \/ Answered
  BY DEF OneInv, TypeInv, ControlOK, ClientType
<1>2. CASE AllAnswered /\ (Len(toWorker) = 1 \/ toWorker = << >>)
  <2>1. S = {}
    BY <1>2 DEF AllAnswered
  <2>2. Cardinality(S) = 0
    BY <2>1, FS_EmptySet
  <2>3. Len(toWorker) \in {0, 1}
    BY <1>2
  <2> QED BY <2>2, <2>3
<1>3. CASE Working
  <2>1. PICK t \in Tasks : \A u \in Tasks : jobs[u].answered <=> u # t
    BY <1>3 DEF Working
  <2>2. S = {t}
    BY <2>1
  <2>3. Cardinality(S) = 1
    BY <2>2, FS_Singleton
  <2>4. Len(toWorker) = 0
    BY <1>3 DEF Working
  <2> QED BY <2>3, <2>4
<1> QED BY <1>1, <1>2, <1>3 DEF Idle, Sending, Answered

\* Whatever the page cancels, the worker has one command to answer at a time, unless it has reported
\* an error no command accounts for (runNextTask, cancelTask, messageHandler).
THEOREM OneAtATimeSafe == Spec => []OneAtATime
<1>1. IInv => OneAtATime
  BY OneFollows DEF IInv
<1> QED BY <1>1, Invariance, PTL

\* A promise is settled by the answer of its own command: the files of a bundle in the order of the
\* directory and, as long as no chain has failed, a page with every shared file it includes.
THEOREM AnswersAreTheirOwnSafe == Spec => []AnswersAreTheirOwn
<1>1. IInv => AnswersAreTheirOwn
  BY DEF IInv, OwnInv, AnswersOwn, AllRight, AnswersRight, Right, AnswersAreTheirOwn, Whole
<1> QED BY <1>1, Invariance, PTL

\* What is held is listed, and what is listed is counted.
LEMMA MemoryFollows == TypeInv /\ MemoryInv => MemoryIsCounted
<1> SUFFICES ASSUME TypeInv, MemoryInv, doc.kind = "indirect"
             PROVE  Held(doc) <= doc.usage
  BY DEF MemoryIsCounted
<1> DEFINE kept == {n \in PageNumbers : doc.pages[n] # Absent}
           listed == {doc.loaded[i] : i \in DOMAIN doc.loaded}
<1>1. DocOK(doc) /\ doc.loaded \in Seq(PageNumbers)
  BY DocFields DEF TypeInv, ObjectsOK
<1>2. kept \subseteq listed
  BY DEF MemoryInv, Listed
<1>3. IsFiniteSet(listed) /\ Cardinality(listed) <= Len(doc.loaded)
  BY <1>1, SequenceRange
<1>4. IsFiniteSet(kept) /\ Cardinality(kept) <= Cardinality(listed)
  BY <1>2, <1>3, FS_Subset
<1>5. Cardinality(kept) \in Nat /\ Cardinality(listed) \in Nat
  BY <1>3, <1>4, FS_CardinalityType
<1> DEFINE k == Cardinality(kept)
           l == Cardinality(listed)
           len == Len(doc.loaded)
           j == Cardinality(doc.djvi)
           u == doc.usage
           w == Cardinality(Taking)
<1>6. Held(doc) = Base + k + j
  BY DEF Held
<1>7. u - len - j >= Base + w /\ w \in Nat
  BY FS_CardinalityType DEF MemoryInv, Slack
<1>8. k \in Nat /\ l \in Nat /\ len \in Nat /\ j \in Nat /\ u \in Int /\ k <= l /\ l <= len
  BY <1>1, <1>3, <1>4, <1>5, DocFields
<1> HIDE DEF k, l, len, j, u, w
<1>9. Base + k + j <= u
  BY <1>7, <1>8 DEF Base
<1> QED BY <1>6, <1>9 DEF u

\* An indirect document never holds more files than it counts, whatever loads fail and whatever
\* releaseMemoryIfRequired throws.
THEOREM MemoryIsCountedSafe == Spec => []MemoryIsCounted
<1>1. IInv => MemoryIsCounted
  BY MemoryFollows DEF IInv
<1> QED BY <1>1, Invariance, PTL
=============================================================================
