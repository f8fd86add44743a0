----------------------------- MODULE KindleBook -----------------------------
(* A Kindle book that is open in the reader, class KF8 of foliate/mobi.js over *)
(* the records of the file. Its text is one sequence of bytes that can only be *)
(* unpacked from its first record on or from its last one back, so what is     *)
(* unpacked is kept as a head and a tail that grow as sections are asked for.  *)
(* Each record is read asynchronously, and nothing keeps two readers of the    *)
(* text (two links followed one soon after the other) from growing the same    *)
(* end at once.                                                                *)
EXTENDS MobiText, FiniteSets

CONSTANTS Books,        \* the books that may be open, see Unpack and Tables for their fields
          Readers,      \* the calls that may be under way at once
          MaxCalls      \* how many calls are made of a book

VARIABLES
  book, tables,     \* the file, and what init() reads of it
  raw,              \* rawHead, rawTail, lastLoadedHead, lastLoadedTail
  cache,            \* the sections and the resources that have a URL
  saved,            \* fragmentSelectors: what follows a place that a link names
  reader,           \* what each call waits for
  calls,            \* how many calls have been made
  disordered,       \* has a record arrived before one asked for earlier at its end?
  given             \* all that has been unpacked for a call

vars == <<book, tables, raw, cache, saved, reader, calls, disordered, given>>

Infinity == 1000000
Slice(bytes, from, to) == SubSeq(bytes, from + 1, Least(to, Len(bytes)))

-----------------------------------------------------------------------------
(* Records. record[0] is the header, then comes the text, then all the rest. *)

Unpack(b, bytes) ==
  LET cut == RemoveTrailingEntries(bytes, b.trailing)
  IN  CASE b.compression = 1     -> cut
        [] b.compression = 2     -> DecompressPalmDoc(cut)
        [] b.compression = 17480 -> DecompressHuff(b.huff, cut)

\* loadText, of a record counted from 0; there may be no such record.
IsRecord(b, index) == index + 1 \in DOMAIN b.record
LoadText(b, index) == Unpack(b, b.record[index + 1])

-----------------------------------------------------------------------------
(* init(): the tables, as indices have them. *)

Entries(index) == [i \in DOMAIN index.entries |-> IndexEntry(index.tagx, index.entries[i])]

\* The strings of an index, by where they are; each record counts as 65536 bytes.
RECURSIVE StringsFrom(_, _, _)
StringsFrom(bytes, at, base) ==
  IF at > Len(bytes) THEN <<>>
  ELSE LET n == VarLen(bytes, at)
       IN  <<[key |-> base + at - 1, string |-> SubSeq(bytes, at + n.size, at + n.size + n.value - 1)]>>
             \o StringsFrom(bytes, at + n.size + n.value, base)

Strings(records) == FlattenSeq([i \in DOMAIN records |-> StringsFrom(records[i], 1, 65536 * (i - 1))])
StringAt(strings, key) ==
  LET found == SelectSeq(strings, LAMBDA s : s.key = key) IN IF found = <<>> THEN <<>> ELSE found[1].string

\* A section is a skeleton and the fragments after it, as many as it says; its length is theirs.
Skeletons(b) ==
  LET e == Entries(b.skel) IN [i \in DOMAIN e |-> [frags |-> e[i][1][1], offset |-> e[i][6][1], length |-> e[i][6][2]]]
Fragments(b) ==
  LET e == Entries(b.frag)
  IN  [i \in DOMAIN e |-> [insert |-> b.frag.names[i], fid |-> e[i][4][1], offset |-> e[i][6][1], length |-> e[i][6][2]]]

Sections(b) ==
  \* bound once: TLC evaluates what LET names wherever it is used
  LET Of(skels, frags) ==
        [i \in DOMAIN skels |->
           LET first == FoldLeft(LAMBDA n, s : n + s.frags, 0, SubSeq(skels, 1, i - 1))
               mine == SubSeq(frags, first + 1, Least(first + skels[i].frags, Len(frags)))
           IN  [skel |-> skels[i], frags |-> mine,
                length |-> skels[i].length + FoldLeft(LAMBDA n, f : n + f.length, 0, mine)]]
  IN  Of(Skeletons(b), Fragments(b))

\* Mutant of Children: what has children is sought by the first of them only.
FirstChild(e, i) == IF e[i][22] = <<>> THEN <<>> ELSE <<e[i][22][1] + 1>>

\* getChildren: of an entry with a first child, those that name it their parent.
Children(e, i) ==
  IF e[i][22] = <<>> THEN <<>>
  ELSE SelectSeq([j \in DOMAIN e |-> j], LAMBDA j : e[j][21] # <<>> /\ e[j][21][1] = i - 1)

\* getNCX: the entries of the highest level, each with a label, a place (fragment, offset)
\* and the entries below it.
Contents(b) ==
  LET e == Entries(b.ncx)
      strings == Strings(b.ncx.strings)
      RECURSIVE Tree(_)
      Tree(nodes) ==
        [k \in DOMAIN nodes |->
           [label |-> StringAt(strings, e[nodes[k]][3][1]), pos |-> e[nodes[k]][6],
            below |-> Tree(Children(e, nodes[k]))]]
  IN  Tree(SelectSeq([i \in DOMAIN e |-> i], LAMBDA i : e[i][4] # <<>> /\ Head(e[i][4]) = 0))

\* fragmentOffsets: the places that the contents name, of entries on every level.
RECURSIVE PlacesIn(_)
PlacesIn(nodes) == UNION {{nodes[k].pos} \union PlacesIn(nodes[k].below) : k \in DOMAIN nodes}

Tables(b) ==
  LET Of(contents) == [sections |-> Sections(b), contents |-> contents, places |-> PlacesIn(contents)]
  IN  Of(Contents(b))

OffsetsIn(fid) == {p[2] : p \in {q \in tables.places : q[1] = fid}}

-----------------------------------------------------------------------------
(* loadRaw *)

Idle == [is |-> "idle"]

Init ==
  /\ book \in Books
  /\ tables = Tables(book)
  /\ raw = [head |-> <<>>, tail |-> <<>>, lastHead |-> -1, lastTail |-> -1]
  /\ cache = {} /\ saved = {} /\ given = {}
  /\ reader = [r \in Readers |-> Idle]
  /\ calls = 0 /\ disordered = FALSE

\* Without an FDST record nobody knows how long the text is.
FullRawLength == IF book.fdst = <<>> THEN Infinity ELSE Last(book.fdst)[2]

\* The end of the text from which there is less to unpack.
Side(from, to) ==
  LET toHead == to - Len(raw.head)
      toTail == IF book.fdst = <<>> THEN Infinity ELSE FullRawLength - Len(raw.tail) - from
  IN  IF toHead < 0 \/ toHead < toTail THEN "head" ELSE "tail"

Enough(buffers, call) ==
  IF call.side = "head" THEN Len(buffers.head) >= call.to ELSE FullRawLength - Len(buffers.tail) <= call.from

Text(buffers, call) ==
  LET tailStart == FullRawLength - Len(buffers.tail)
  IN  IF call.side = "head" THEN Slice(buffers.head, call.from, call.to)
      ELSE Slice(buffers.tail, call.from - tailStart, call.to - tailStart)

\* Mutant of Grow: what is unpacked from the end goes after what has been unpacked.
GrowAfter(buffers, side, data) ==
  IF side = "head" THEN [buffers EXCEPT !.head = @ \o data] ELSE [buffers EXCEPT !.tail = @ \o data]

Grow(buffers, side, data) ==
  IF side = "head" THEN [buffers EXCEPT !.head = @ \o data] ELSE [buffers EXCEPT !.tail = data \o @]

\* The next record at an end; nothing bounds its number.
Ask(buffers, side) ==
  IF side = "head" THEN [buffers EXCEPT !.lastHead = @ + 1] ELSE [buffers EXCEPT !.lastTail = @ + 1]
Asked(buffers, side) ==
  IF side = "head" THEN buffers.lastHead ELSE book.textRecords - 1 - buffers.lastTail

-----------------------------------------------------------------------------
(* What a call does with its text. *)

From(bytes, offset) == SubSeq(bytes, offset + 1, Len(bytes))

FragmentText(section, text, k) ==
  Slice(text, section.skel.length + section.frags[k].offset,
        section.skel.length + section.frags[k].offset + section.frags[k].length)

\* loadText(section): each fragment goes where it says, counted with those before it in place.
Assemble(section, text) ==
  FoldLeft(LAMBDA page, k :
             LET at == section.frags[k].insert - section.skel.offset
             IN  SubSeq(page, 1, at) \o FragmentText(section, text, k) \o From(page, at),
           SubSeq(text, 1, section.skel.length), [k \in DOMAIN section.frags |-> k])

\* setFragmentSelector
Save(old, new) == {s \in old : \A n \in new : n.link # s.link} \union new

SectionSelectors(section, text) ==
  UNION {{[link |-> <<section.frags[k].fid, off>>, what |-> From(FragmentText(section, text, k), off)]
            : off \in OffsetsIn(section.frags[k].fid)} : k \in DOMAIN section.frags}

\* loadSection then loads what the section refers to, one after the other.
Deliver(r, call, text) ==
  \/ /\ call.what = "section"
     /\ \E section \in {tables.sections[call.id]} :
          /\ given' = given \union {[what |-> "section", id |-> call.id, bytes |-> Assemble(section, text)]}
          /\ saved' = Save(saved, SectionSelectors(section, text))
     /\ reader' = [reader EXCEPT ![r] = [is |-> "resources", section |-> call.id, todo |-> book.flowsOf[call.id]]]
     /\ UNCHANGED cache
  \/ /\ call.what = "flow"
     /\ given' = given \union {[what |-> "flow", id |-> call.id, bytes |-> text]}
     /\ cache' = cache \union {<<"flow", call.id>>}
     /\ reader' = [reader EXCEPT ![r] = [is |-> "resources", section |-> call.section, todo |-> call.todo]]
     /\ UNCHANGED saved
  \/ /\ call.what = "link"
     /\ saved' = Save(saved, {[link |-> call.id, what |-> From(text, call.id[2])]})
     /\ reader' = [reader EXCEPT ![r] = Idle]
     /\ UNCHANGED <<given, cache>>

\* One turn of loadRaw's loop: it has enough, or asks for one more record.
Turn(r, call, buffers) ==
  \/ /\ Enough(buffers, call)
     /\ raw' = buffers
     /\ Deliver(r, call, Text(buffers, call))
  \/ /\ ~Enough(buffers, call)
     /\ raw' = Ask(buffers, call.side)
     /\ reader' = [reader EXCEPT ![r] = [is |-> "reading", call |-> call, index |-> Asked(raw', call.side)]]
     /\ UNCHANGED <<given, saved, cache>>

LoadRaw(r, call) == Turn(r, [call EXCEPT !.side = Side(call.from, call.to)], raw)

-----------------------------------------------------------------------------
(* Calls. *)

Call(what, id, section, todo, from, to) ==
  [what |-> what, id |-> id, section |-> section, todo |-> todo, from |-> from, to |-> to, side |-> ""]

Begins(r) == reader[r] = Idle /\ calls < MaxCalls /\ calls' = calls + 1

\* loadSection of a section without a URL.
LoadSection(r, i) ==
  /\ Begins(r)
  /\ <<"section", i>> \notin cache
  /\ tables.sections[i].frags # <<>>
  /\ \E s \in {tables.sections[i]} :
       LoadRaw(r, Call("section", i, i, <<>>, s.skel.offset, s.skel.offset + s.length))
  /\ UNCHANGED <<book, tables, disordered>>

\* resolveHref of a place nobody has looked for: only its fragment is unpacked.
ResolveHref(r, link) ==
  /\ Begins(r)
  /\ \A s \in saved : s.link # link
  /\ \E i \in DOMAIN tables.sections : \E k \in DOMAIN tables.sections[i].frags :
       /\ tables.sections[i].frags[k].fid = link[1]
       /\ \E s \in {tables.sections[i]} :
            LET at == s.skel.offset + s.skel.length + s.frags[k].offset
            IN  LoadRaw(r, Call("link", link, i, <<>>, at, at + s.frags[k].length))
  /\ UNCHANGED <<book, tables, disordered>>

\* replaceResources: the next flow that the section refers to, unless it has a URL.
LoadResource(r) ==
  /\ reader[r].is = "resources" /\ reader[r].todo # <<>>
  /\ \E flow \in {Head(reader[r].todo)}, rest \in {Tail(reader[r].todo)} :
       \/ /\ <<"flow", flow>> \in cache
          /\ reader' = [reader EXCEPT ![r].todo = rest]
          /\ UNCHANGED <<raw, given, saved, cache>>
       \/ /\ <<"flow", flow>> \notin cache
          /\ LoadRaw(r, Call("flow", flow, reader[r].section, rest, book.fdst[flow][1], book.fdst[flow][2]))
  /\ UNCHANGED <<book, tables, disordered, calls>>

\* The section gets its URL.
Publish(r) ==
  /\ reader[r].is = "resources" /\ reader[r].todo = <<>>
  /\ cache' = cache \union {<<"section", reader[r].section>>}
  /\ reader' = [reader EXCEPT ![r] = Idle]
  /\ UNCHANGED <<book, tables, raw, saved, given, calls, disordered>>

\* A record arrives, whichever has been asked for; there may be none of that number.
Overtakes(r) ==
  \E q \in Readers \ {r} :
    /\ reader[q].is = "reading" /\ reader[q].call.side = reader[r].call.side
    /\ IF reader[r].call.side = "head" THEN reader[q].index < reader[r].index ELSE reader[q].index > reader[r].index

Arrive(r) ==
  /\ reader[r].is = "reading"
  /\ \/ /\ IsRecord(book, reader[r].index)
        /\ disordered' = (disordered \/ Overtakes(r))
        /\ \E data \in {LoadText(book, reader[r].index)} :
             Turn(r, reader[r].call, Grow(raw, reader[r].call.side, data))
     \/ /\ ~IsRecord(book, reader[r].index)
        /\ reader' = [reader EXCEPT ![r] = Idle]
        /\ UNCHANGED <<raw, given, saved, cache, disordered>>
  /\ UNCHANGED <<book, tables, calls>>

Next ==
  \E r \in Readers :
    \/ \E i \in DOMAIN tables.sections : LoadSection(r, i)
    \/ \E link \in tables.places : ResolveHref(r, link)
    \/ LoadResource(r)
    \/ Publish(r)
    \/ Arrive(r)

Spec == Init /\ [][Next]_vars

-----------------------------------------------------------------------------
(* A book has what its maker meant beside what the file has: pages (the sections), text (all   *)
(* of it), fragment (by number), meant (the contents), old and oldContents (a text of the      *)
(* older format and where its contents are).                                                   *)

\* As long as records have arrived in the order they were asked for, however many calls were
\* under way at once and from whichever end they unpacked the text, every section and resource
\* that has been unpacked is what the book's maker put in it, and every place a link names is
\* followed by what is there.
TextIsWhole ==
  ~disordered =>
    /\ \A g \in given :
         g.bytes = IF g.what = "section" THEN book.pages[g.id]
                   ELSE Slice(book.text, book.fdst[g.id][1], book.fdst[g.id][2])
    /\ \A s \in saved : s.what = From(book.fragment[s.link[1]], s.link[2])

\* The contents are those the maker wrote: labels, places and what is below what, whichever
\* tags an entry has and in however many bytes its numbers are written.  An entry of a lower
\* level is only below the one that it names.
ContentsAreRead == tables.contents = book.meant

\* In a book of the older format, the place that a link names is in the section the link opens,
\* and there the anchor is, with as much of the text before it as the link counts; but for the
\* sections that were read before the links were listed.
LinksHaveAnchors ==
  \A i \in DOMAIN book.old : book.old[i].is = "link" /\ book.old[i].to < Len(book.old) =>
    LET to == book.old[i].to
        at == ResolveHref6(book.old, to)
        section == Sections6(book.old)[at]
        text == TextOf6(book.old, book.oldContents, at)
        anchors == {k \in DOMAIN text : text[k] = [is |-> "anchor", to |-> to]}
        Plain(tokens) == SelectSeq(tokens, LAMBDA token : token.is \notin {"anchor", "break"})
    IN  /\ section.start <= to /\ to < section.end
        /\ Plain(text) = Plain(SubSeq(book.old, section.start + 1, section.end))
        /\ \/ at \in ReadAtInit6(book.old, book.oldContents)
           \/ \E k \in anchors :
                /\ anchors = {k}
                /\ Plain(SubSeq(text, 1, k)) = Plain(SubSeq(book.old, section.start + 1, to))
=============================================================================
