----------------------------- MODULE DjVuWorker -----------------------------
(***************************************************************************)
(* DjVuWorker, through which the reader's page asks for the pages of a     *)
(* DjVu document (src/static/lib/djvu/djvu.js), and the Web Worker that    *)
(* gets and draws them.                                                    *)
(*                                                                         *)
(* A command is a list of chains of calls, doc.getPage(n).use(), that run  *)
(* concurrently in the worker and are answered by one message; or the      *)
(* bundling of the whole document, which tells of its progress meanwhile.  *)
(* The worker runs to completion between two awaits of the network or of   *)
(* the encoding of an image: those are the steps of the model.             *)
(***************************************************************************)
EXTENDS DjVuDocument

CONSTANTS
  MaxTasks,     \* bound: promises the reader's page asks for, numbered in that order
  Kinds,        \* the kinds of documents
  MemoryLimits, \* the files a document may be told to keep
  Directory,    \* the names of the files of the document, in order
  Pages,        \* Pages[n]: the place of page n in Directory
  UseLists,     \* UseLists[n]: the calls made of page n in one command
  Limit,        \* files that bundle() loads at a time (4 in the code)
  MaxFaults     \* bound: loads that fail, and errors of the worker that no command accounts for

ASSUME WorkerAssumption ==
  /\ MaxTasks \in Nat /\ MaxFaults \in Nat /\ Limit \in Nat \ {0}
  /\ Kinds \subseteq {"bundled", "indirect", "single"} /\ MemoryLimits \subseteq Nat
  /\ Directory \in Seq(Range(Directory))
  /\ Pages \in [PageNumbers -> DOMAIN Directory]
  /\ \A n, m \in PageNumbers : n < m => Pages[n] < Pages[m]
  /\ UseLists \in [PageNumbers -> Seq({"png", "draw", "read"})]

VARIABLES
  outcome,      \* outcome[t]: what the promise t has come to
  client,       \* the DjVuWorker object of the page
  progress,     \* progress[t]: what the callback of a bundling was last told
  toWorker,     \* commands on their way to the worker
  toPage,       \* messages on their way to the page
  jobs,         \* jobs[t]: the command of t in the worker
  doc,          \* the DjVuDocument
  failures, errors

vars == <<outcome, client, progress, toWorker, toPage, jobs, doc, failures, errors>>

NoId == 0       \* null: ids count from 1 here, from 0 in the code
NoTask == 0
Tasks == 1 .. MaxTasks

Commands == {[page |-> n, uses |-> UseLists[n]] : n \in PageNumbers} \union {[page |-> 0, uses |-> << >>]}
IsBundling(command) == command.page = 0

Chain(use) == [use |-> use, at |-> "idle", waits |-> {}, obj |-> Absent, got |-> << >>]
NoJob == [id |-> NoId, page |-> 0, answered |-> TRUE, started |-> 0, chains |-> << >>]
JobOf(id, command) ==
  [id |-> id, page |-> command.page, answered |-> FALSE, started |-> 0,
   chains |-> IF IsBundling(command) THEN [i \in DOMAIN Directory |-> Chain("load")]
              ELSE [c \in DOMAIN command.uses |-> Chain(command.uses[c])]]

Open == [is |-> "open", of |-> NoTask, got |-> << >>]
Unasked == [Open EXCEPT !.is = "unasked"]
Message(is, id, t, got) == [is |-> is, id |-> id, of |-> t, got |-> got]

Init ==
  /\ outcome = [t \in Tasks |-> Unasked]
  /\ client = [queue |-> << >>, current |-> NoTask, id |-> NoId, counter |-> 1,
               working |-> FALSE, hyper |-> {}]
  /\ progress = [t \in Tasks |-> 0]
  /\ toWorker = << >> /\ toPage = << >>
  /\ jobs = [t \in Tasks |-> NoJob]
  /\ \E kind \in Kinds, limit \in MemoryLimits : doc = Opened(kind, limit)
  /\ failures = 0 /\ errors = 0

-----------------------------------------------------------------------------
(* The page: DjVuWorker. *)

DropCurrent(c) == [c EXCEPT !.current = NoTask, !.id = NoId]

\* runNextTask: the head of the queue is sent, unless a command is at work.
Sends(c) == ~c.working /\ c.queue # << >>
Sent(c) == [task |-> Head(c.queue)[1], id |-> c.counter, command |-> Head(c.queue)[2]]

RunNext(c) ==
  IF c.working THEN c
  ELSE IF c.queue = << >> THEN DropCurrent(c)
  ELSE LET next == Head(c.queue) IN
       [c EXCEPT !.queue = Tail(@), !.current = next[1], !.id = c.counter, !.counter = @ + 1,
                 !.working = TRUE,
                 !.hyper = IF IsBundling(next[2]) THEN @ \union {next[1]} ELSE @]

GoOnWith(c) ==
  /\ client' = RunNext(c)
  /\ toWorker' = IF Sends(c) THEN Append(toWorker, Sent(c)) ELSE toWorker

\* createNewPromise.  A page of an indirect document, or any of its files, can be asked for
\* whatever is loaded; only such a document is bundled.
Ask(t, command) ==
  /\ outcome[t] = Unasked /\ \A earlier \in 1 .. (t - 1) : outcome[earlier] # Unasked
  /\ IsBundling(command) => doc.kind = "indirect"
  /\ command.page \in PageNumbers /\ doc.kind = "single" => command.page = 1
  /\ outcome' = [outcome EXCEPT ![t] = Open]
  /\ GoOnWith([client EXCEPT !.queue = Append(@, <<t, command>>)])
  /\ UNCHANGED <<progress, toPage, jobs, doc, failures, errors>>

Abandon(ts) ==
  outcome' = [t \in Tasks |-> IF t \in ts THEN [outcome[t] EXCEPT !.is = "cancelled"] ELSE outcome[t]]

Queued(c) == {c.queue[i][1] : i \in DOMAIN c.queue}

\* Mutant of Dropped: cancelling the command at work makes room for the next one.
DroppedAndFree(c) == [DropCurrent(c) EXCEPT !.working = FALSE]

Dropped(c) == DropCurrent(c)

\* cancelTask: out of the queue, or else no longer the current one.  The command stays at work.
Cancel(t) ==
  /\ outcome[t].is = "open"
  /\ \/ \E i \in DOMAIN client.queue :
          client.queue[i][1] = t /\ client' = [client EXCEPT !.queue = RemoveAt(@, i)]
     \/ t \notin Queued(client) /\ client.current = t /\ client' = Dropped(client)
  /\ Abandon({t})
  /\ UNCHANGED <<progress, toWorker, toPage, jobs, doc, failures, errors>>

EmptyTaskQueue ==
  /\ client.queue # << >>
  /\ client' = [client EXCEPT !.queue = << >>]
  /\ Abandon(Queued(client))
  /\ UNCHANGED <<progress, toWorker, toPage, jobs, doc, failures, errors>>

CancelAllTasks ==
  /\ client.queue # << >> /\ client.current # NoTask
  /\ client' = Dropped([client EXCEPT !.queue = << >>])
  /\ Abandon(Queued(client) \union {client.current})
  /\ UNCHANGED <<progress, toWorker, toPage, jobs, doc, failures, errors>>

\* Mutant of IsExpected: any answer settles the promise at work.
AnyIsExpected(message) == TRUE

\* Mutant of IsExpected: the answer of a command that was cancelled at work is not expected.
OwnIsExpected(message) == client.id = message.id

\* The answer of the command at work, or of one that was cancelled at work.
IsExpected(message) == client.id \in {message.id, NoId}

Unregistered(c, message) == [c EXCEPT !.hyper = @ \ {message.of}]

\* messageHandler: an answer, or the name of an error nobody caught.
HandleAnswer ==
  LET message == Head(toPage)
      settled == client.current
      idle == [client EXCEPT !.working = FALSE]
  IN  /\ toPage # << >> /\ message.is \in {"resolved", "failed", "error"}
      /\ toPage' = Tail(toPage)
      /\ \/ /\ IsExpected(message) /\ settled # NoTask
            /\ GoOnWith(Unregistered(idle, message))
            /\ outcome' = [outcome EXCEPT ![settled] =
                             [is |-> message.is, of |-> message.of, got |-> message.got]]
         \/ /\ IsExpected(message) /\ settled = NoTask
            /\ GoOnWith(idle)
            /\ UNCHANGED outcome
         \/ /\ ~IsExpected(message) /\ message.is = "error"
            /\ GoOnWith(idle)
            /\ UNCHANGED outcome
         \/ /\ ~IsExpected(message) /\ message.is # "error"
            /\ client' = idle
            /\ UNCHANGED <<toWorker, outcome>>
      /\ UNCHANGED <<progress, jobs, doc, failures, errors>>

\* processAction: a callback that is registered is told of the progress.
HandleProgress ==
  /\ toPage # << >> /\ Head(toPage).is = "progress"
  /\ toPage' = Tail(toPage)
  /\ progress' = IF Head(toPage).of \in client.hyper
                 THEN [progress EXCEPT ![Head(toPage).of] = Head(toPage).got] ELSE progress
  /\ UNCHANGED <<outcome, client, toWorker, jobs, doc, failures, errors>>

-----------------------------------------------------------------------------
(* The worker. *)

Ended(chain) == chain.at \in {"done", "failed"}

\* What a chain gives: the page and the shared files it was drawn with, or the file loaded.
Shown(d, o) == <<d.objs[o].page, d.objs[o].parts>>

\* The command's handler awaits all its chains, and rejects with the first that fails; what
\* it has to say is posted in the same step.  The progress a step tells of is posted before.
Post(t, done, told) ==
  \E job \in {done} :
  LET failed == \E c \in DOMAIN job.chains : job.chains[c].at = "failed"
      ended == \A c \in DOMAIN job.chains : job.chains[c].at = "done"
      total == Len(Directory) + 3
      more == IF ended /\ job.page = 0 THEN <<total - 2, total - 1, total>> ELSE << >>
      says == [i \in DOMAIN (told \o more) |-> Message("progress", NoId, t, (told \o more)[i])]
      got == [c \in DOMAIN job.chains |-> job.chains[c].got]
      answers == ~job.answered /\ (failed \/ ended)
  IN  /\ jobs' = [jobs EXCEPT ![t] = [job EXCEPT !.answered = @ \/ answers]]
      /\ toPage' = toPage \o says \o
           (IF answers THEN <<Message(IF failed THEN "failed" ELSE "resolved", job.id, t,
                                      IF failed THEN << >> ELSE got)>>
            ELSE << >>)

\* The chain calls its use of the page object o.  createPngObjectUrl draws, awaits the blob
\* and then reads the size of the page.
Use(d, chain, o) ==
  IF InitThrows(d, o)
  THEN [doc |-> UsePage(d, o, chain.use), chain |-> [chain EXCEPT !.at = "failed"]]
  ELSE [doc |-> UsePage(d, o, chain.use),
        chain |-> [chain EXCEPT !.at = IF chain.use = "png" THEN "blob" ELSE "done", !.obj = o,
                                !.got = Shown(InitPage(d, o), o)]]

\* The page object as the chains of a page that is there use it, one after another: it is left
\* as it is, initialised or reset.
With(d, o, page) == [d EXCEPT !.objs[o] = page]

UseAll(d, chains, o) ==
  {seen \in [1 .. (Len(chains) + 1) ->
              {d.objs[o], ResetPage(d, o).objs[o], InitPage(ResetPage(d, o), o).objs[o]}] :
     /\ seen[1] = d.objs[o]
     /\ \A c \in DOMAIN chains : seen[c + 1] = Use(With(d, o, seen[c]), chains[c], o).doc.objs[o]}

NextFile(job) == CHOOSE i \in DOMAIN job.chains :
  job.chains[i].at = "idle" /\ \A j \in 1 .. (i - 1) : job.chains[j].at # "idle"

Loading(job) == {i \in DOMAIN job.chains : job.chains[i].at = "load"}
IsPageFile(i) == i \in {Pages[n] : n \in PageNumbers}

\* pLimit: the next file is loaded when fewer than Limit are.  A page's file is named by the
\* count of the pages started so far.
StartFile(job) ==
  IF Cardinality(Loading(job)) >= Limit \/ \A i \in DOMAIN job.chains : job.chains[i].at # "idle"
  THEN job
  ELSE LET i == NextFile(job)
           started == job.started + (IF IsPageFile(i) THEN 1 ELSE 0)
       IN  [job EXCEPT !.started = started, !.chains[i].at = "load",
              !.chains[i].got = Directory[IF IsPageFile(i) THEN Pages[started] ELSE i]]

StartFiles(job) ==
  [job EXCEPT !.started = Cardinality({i \in 1 .. Limit : IsPageFile(i)}),
     !.chains = [i \in DOMAIN @ |-> [@[i] EXCEPT !.at = IF i <= Limit THEN "load" ELSE "idle",
                                               !.got = IF i <= Limit THEN Directory[i] ELSE << >>]]]

\* onmessage and the handler of run, to its first await.  The chains of a command are of one page.
Receive ==
  LET sent == Head(toWorker)
      t == sent.task
      job == JobOf(sent.id, sent.command)
      n == sent.command.page
      asked == AskForPage(doc, n)
      missing == Parts(n) \ doc.djvi
  IN  /\ toWorker # << >>
      /\ toWorker' = Tail(toWorker)
      /\ \/ /\ n = 0
            /\ Post(t, StartFiles(job), << >>)
            /\ UNCHANGED doc
         \/ /\ n \in PageNumbers /\ asked.last = Absent
            /\ doc' = asked
            /\ Post(t, [job EXCEPT !.chains = [c \in DOMAIN @ |-> [@[c] EXCEPT !.at = "page"]]], << >>)
         \/ /\ n \in PageNumbers /\ asked.last # Absent /\ NeedsParts(doc) /\ missing # {}
            /\ doc' = asked
            /\ Post(t, [job EXCEPT !.chains = [c \in DOMAIN @ |->
                          [@[c] EXCEPT !.at = "parts", !.waits = missing, !.obj = asked.last]]], << >>)
         \/ /\ n \in PageNumbers /\ asked.last # Absent /\ ~(NeedsParts(doc) /\ missing # {})
            /\ \E there \in {[asked EXCEPT !.depsLoaded = doc.kind = "single"]} :
                 \E seen \in UseAll(there, job.chains, there.last) :
                   /\ doc' = With(there, there.last, seen[Len(job.chains) + 1])
                   /\ Post(t, [job EXCEPT !.chains = [c \in DOMAIN @ |->
                               Use(With(there, there.last, seen[c]), @[c], there.last).chain]], << >>)
      /\ UNCHANGED <<outcome, client, progress, failures, errors>>

SetChain(t, c, chain) == [jobs[t] EXCEPT !.chains[c] = chain]

\* All the files are there: an indirect document makes room and keeps the page.
GotPage(t, c, d, chain) ==
  \E released \in {IF d.kind = "indirect" THEN ReleaseMemory(d, jobs[t].page)
                   ELSE [throws |-> FALSE, doc |-> [d EXCEPT !.depsLoaded = TRUE]]} :
    \/ /\ released.throws
       /\ doc' = released.doc
       /\ Post(t, SetChain(t, c, [chain EXCEPT !.at = "failed"]), << >>)
    \/ /\ ~released.throws
       /\ \E kept \in {IF d.kind = "indirect" THEN KeepPage(released.doc, jobs[t].page, chain.obj)
                       ELSE released.doc} :
            LET used == Use(kept, chain, chain.obj) IN
            doc' = used.doc /\ Post(t, SetChain(t, c, used.chain), << >>)

PageArrives(t, c) ==
  LET chain == jobs[t].chains[c]
      n == jobs[t].page
      taken == TakePage(doc, n, <<jobs[t].id, c>>)
      missing == Parts(n) \ doc.djvi
      goes == [chain EXCEPT !.at = "parts", !.waits = missing, !.obj = <<jobs[t].id, c>>]
  IN  /\ chain.at = "page"
      /\ \/ missing = {} /\ GotPage(t, c, taken, goes)
         \/ missing # {} /\ doc' = taken /\ Post(t, SetChain(t, c, goes), << >>)
      /\ UNCHANGED <<outcome, client, progress, toWorker, failures, errors>>

\* A part that arrives after its chain has failed is kept all the same.
PartArrives(t, c, id) ==
  LET chain == [jobs[t].chains[c] EXCEPT !.waits = @ \ {id}]
      taken == TakePart(doc, id)
  IN  /\ id \in jobs[t].chains[c].waits
      /\ \/ chain.waits = {} /\ chain.at = "parts" /\ GotPage(t, c, taken, chain)
         \/ /\ chain.waits # {} \/ chain.at # "parts"
            /\ doc' = taken
            /\ Post(t, SetChain(t, c, chain), << >>)
      /\ UNCHANGED <<outcome, client, progress, toWorker, failures, errors>>

\* The image is encoded: the size of the page is read, of a large one by init again.
BlobMade(t, c) ==
  LET chain == jobs[t].chains[c] IN
  /\ chain.at = "blob"
  /\ doc' = InitPage(doc, chain.obj)
  /\ Post(t, SetChain(t, c, [chain EXCEPT !.at = IF InitThrows(doc, chain.obj) THEN "failed" ELSE "done"]), << >>)
  /\ UNCHANGED <<outcome, client, progress, toWorker, failures, errors>>

FileArrives(t, c) ==
  /\ jobs[t].chains[c].at = "load"
  /\ LET job == SetChain(t, c, [jobs[t].chains[c] EXCEPT !.at = "done"]) IN
     Post(t, StartFile(job), <<Cardinality({i \in DOMAIN job.chains : job.chains[i].at = "done"})>>)
  /\ UNCHANGED <<outcome, client, progress, toWorker, doc, failures, errors>>

LoadFails(t, c) ==
  LET chain == jobs[t].chains[c] IN
  /\ failures + errors < MaxFaults
  /\ failures' = failures + 1
  /\ \/ /\ chain.at \in {"page", "load"}
        /\ Post(t, StartFile(SetChain(t, c, [chain EXCEPT !.at = "failed"])), << >>)
     \/ /\ chain.waits # {}
        /\ \E id \in chain.waits :
             Post(t, SetChain(t, c, [chain EXCEPT !.at = "failed", !.waits = @ \ {id}]), << >>)
  /\ UNCHANGED <<outcome, client, progress, toWorker, doc, errors>>

\* The listeners for an error, or a rejection, that nobody caught.
WorkerError ==
  /\ failures + errors < MaxFaults
  /\ errors' = errors + 1
  /\ toPage' = Append(toPage, Message("error", NoId, NoTask, << >>))
  /\ UNCHANGED <<outcome, client, progress, toWorker, jobs, doc, failures>>

-----------------------------------------------------------------------------
Arrives(t, c) ==
  PageArrives(t, c) \/ (\E id \in Shared : PartArrives(t, c, id)) \/ BlobMade(t, c) \/ FileArrives(t, c)

Answers == Receive \/ (\E t \in Tasks : \E c \in DOMAIN jobs[t].chains : Arrives(t, c))
Handles == HandleAnswer \/ HandleProgress

Next ==
  \/ \E t \in Tasks : (\E command \in Commands : Ask(t, command)) \/ Cancel(t)
  \/ EmptyTaskQueue \/ CancelAllTasks
  \/ Handles \/ Answers
  \/ \E t \in Tasks : \E c \in DOMAIN jobs[t].chains : LoadFails(t, c)
  \/ WorkerError

\* Both event loops run, and every request of the network ends.
Fairness == WF_vars(Handles) /\ WF_vars(Answers)

Spec == Init /\ [][Next]_vars /\ Fairness

-----------------------------------------------------------------------------
SomethingFailed == \E t \in Tasks : \E c \in DOMAIN jobs[t].chains : jobs[t].chains[c].at = "failed"

\* A promise is settled by the answer of its own command: the files of a bundle in the order of
\* the directory and, as long as no chain has failed, a page with every shared file it includes;
\* whatever was cancelled, and whatever else the document loaded or dropped.
AnswersAreTheirOwn ==
  \A t \in Tasks : outcome[t].is = "resolved" =>
    /\ outcome[t].of = t
    /\ jobs[t].page = 0 => outcome[t].got = Directory
    /\ jobs[t].page # 0 /\ ~SomethingFailed =>
         \A c \in DOMAIN outcome[t].got : outcome[t].got[c] = <<jobs[t].page, Parts(jobs[t].page)>>

\* The worker has one command to answer at a time, though the page cancels as it likes,
\* unless it has reported an error that no command accounts for.
OneAtATime ==
  errors = 0 =>
    Cardinality({t \in Tasks : ~jobs[t].answered}) + Len(toWorker) <= 1

\* An indirect document never holds more than it counts, so it is held to its limit.
MemoryIsCounted == doc.kind = "indirect" => Held(doc) <= doc.usage

\* Every promise that is not cancelled is settled, unless the worker has reported an error
\* that no command accounts for: the promise at work is then forgotten.
EveryPromiseIsSettled ==
  \A t \in Tasks : outcome[t].is = "open" ~> (outcome[t].is # "open" \/ errors > 0)
=============================================================================
