-------------------------- MODULE EpubLoader_proofs --------------------------
(* Proofs about the loader of epub.js: in every book without circles of       *)
(* imports what is on the screen stays live, and nothing is left of the       *)
(* sections before (ShownIsLive and NothingLeaks of EpubLoader).              *)
EXTENDS EpubLoader, TLAPS, FiniteSetTheorems, FunctionTheorems, SequenceTheorems

\* The entries of h in the list of what is to be unreferenced, and the files whose list of
\* children has it.
Places(todo, h) == {i \in DOMAIN todo : todo[i] = h}
Holders(b, lists, h) == {p \in DOMAIN b.links : h \in ToSet(lists[p])}

\* The URLs of the files in a list.
UrlsOf(c, list) == {c[k] : k \in ToSet(list)}

\* The URLs put into a text are those of the list of children; a load that failed may have left
\* more in the list.
Agrees(urls, listed) == urls \subseteq listed /\ (~failed => urls = listed)

LoaderType(b, bl, c, n, lists) ==
  /\ bl \in Seq(SUBSET Nat)
  /\ c \in [DOMAIN b.links -> (1 .. Len(bl)) \union {Nothing}]
  /\ n \in [DOMAIN b.links -> Nat]
  /\ lists \in [DOMAIN b.links \union {Root} -> Seq(DOMAIN b.links)]

\* A URL is inside URLs made later only.
Layered(bl) == \A u \in DOMAIN bl : bl[u] \subseteq 1 .. (u - 1)

\* What is not revoked is the URL of one file each, and holds those of the file's children.
UrlsRight(b, bl, c, lists, lv) ==
  /\ lv = {c[h] : h \in {k \in DOMAIN b.links : c[k] # Nothing}}
  /\ \A h, k \in DOMAIN b.links : c[h] # Nothing /\ c[h] = c[k] => h = k
  /\ \A h \in DOMAIN b.links : c[h] # Nothing => Agrees(bl[c[h]], UrlsOf(c, lists[h]))

\* A list of children names files that are referred to, each once, that have URLs; only files
\* that have URLs, and those being rewritten, have one, unless a load has failed.
ListsRight(b, c, lists, busy) ==
  /\ \A p \in DOMAIN b.links : ToSet(lists[p]) \subseteq ToSet(b.links[p])
  /\ \A p \in DOMAIN b.links : \A i, j \in DOMAIN lists[p] : lists[p][i] = lists[p][j] => i = j
  /\ \A p \in DOMAIN b.links : \A k \in ToSet(lists[p]) : c[k] # Nothing
  /\ \A p \in DOMAIN b.links : ~failed /\ lists[p] # <<>> => c[p] # Nothing \/ p \in busy

\* A file that is no section is counted once for every list that has it, and for every entry
\* in todo; without any it has no URL.
CountsRight(b, c, n, lists, todo) ==
  \A h \in DOMAIN b.links \ b.spine :
    /\ c[h] # Nothing =>
         n[h] > 0 /\ n[h] = Cardinality(Holders(b, lists, h)) + Cardinality(Places(todo, h))
    /\ c[h] = Nothing => Holders(b, lists, h) = {} /\ Places(todo, h) = {}

Kept(b, bl, c, n, lists, lv, todo, busy) ==
  /\ LoaderType(b, bl, c, n, lists) /\ Layered(bl)
  /\ UrlsRight(b, bl, c, lists, lv)
  /\ ListsRight(b, c, lists, busy)
  /\ CountsRight(b, c, n, lists, todo)

\* The files that calls rewrite.
Busy(calls) == {calls[i].href : i \in {j \in DOMAIN calls : calls[j].stage = "links"}}

\* A call of loadItem: only the innermost does not wait for the file it refers to. A file
\* that is read has no URL, and the URLs it got are those of its children.
CallRight(b, c, lists, call) ==
  /\ ToSet(call.todo) \subseteq ToSet(b.links[call.href])
  /\ call.stage = "item" => call.urls = {}
  /\ call.stage # "item" =>
       c[call.href] = Nothing /\ Agrees(call.urls, UrlsOf(c, lists[call.href]))

\* The calls under way: each for a file that the next one refers to, up to the section.
StackRight(b, calls) ==
  /\ \A i \in DOMAIN calls : i > 1 => calls[i].stage = "links"
  /\ \A i \in DOMAIN calls :
       IF i = Len(calls) THEN calls[i].parents = <<>>
       ELSE /\ calls[i].parents # <<>> /\ Last(calls[i].parents) = calls[i + 1].href
            /\ calls[i].href \in ToSet(b.links[calls[i + 1].href])

LoadRight(b, c, lists, r) ==
  /\ r \in LoadType(b)
  /\ StackRight(b, r.calls)
  /\ \A i \in DOMAIN r.calls : CallRight(b, c, lists, r.calls[i])
  /\ r.calls # <<>> =>
       r.calls[Len(r.calls)].href = r.to /\ r.to \in b.spine /\ r.stage = "load" /\ r.url = Nothing
  /\ r.calls = <<>> /\ r.url # Nothing => r.to \in b.spine /\ r.url = c[r.to]
  /\ r.stage = "frame" => r.url # Nothing
  /\ r.to # Nothing => r.to # r.old

BusyOf(loads) == UNION {Busy(loads[l].calls) : l \in {k \in Loads : loads[k] # Nothing}}
BusyNow == BusyOf(load)

ViewRight ==
  /\ view # Nothing => \E s \in book.spine : cache[s] # Nothing /\ cache[s] = view.url
  /\ \A l \in Loads : load[l] # Nothing /\ load[l].stage = "frame" =>
       view \in [url : Nat, load : Loads, ready : BOOLEAN] /\ view.url = load[l].url

OneLoad ==
  /\ load \in [Loads -> LoadType(book) \union {Nothing}]
  /\ \A k, l \in Loads : load[k] # Nothing /\ load[l] # Nothing => k = l

OrderlyInv ==
  /\ Kept(book, blobs, cache, refCount, children, live, <<>>, BusyNow)
  /\ \A l \in Loads : load[l] # Nothing => LoadRight(book, cache, children, load[l])
  /\ OneLoad
  /\ index \in book.spine \union {Nothing}
  /\ ViewRight

\* The sections that have a URL.
Cached == {s \in book.spine : cache[s] # Nothing}
PlainInv ==
  /\ \A s \in Cached : refCount[s] = 1
  /\ (\A l \in Loads : load[l] = Nothing) => Cached \subseteq {index} /\ (view # Nothing => index # Nothing /\ view.url = cache[index])
  /\ \A l \in Loads : load[l] # Nothing =>
       /\ (load[l].calls # <<>> => Cached \subseteq {load[l].old})
       /\ Cached \subseteq {load[l].old, load[l].to}
       /\ load[l].stage = "load" => index = load[l].old
       /\ load[l].stage = "frame" => index = load[l].to
       /\ load[l].calls = <<>> => load[l].url # Nothing

IInv ==
  /\ book \in Books
  /\ book \in OrderlyBooks => OrderlyInv
  /\ book \in PlainBooks /\ ~failed => PlainInv

\* What OrderlyBooks and LoaderAssumption say of a book.
BookRight(b) ==
  /\ IsFiniteSet(DOMAIN b.links) /\ b.links \in [DOMAIN b.links -> Seq(DOMAIN b.links)]
  /\ b.spine \subseteq DOMAIN b.links
  /\ Root \notin DOMAIN b.links /\ Nothing \notin DOMAIN b.links /\ Nothing \notin Nat
  /\ \A h \in DOMAIN b.links : ToSet(b.links[h]) \cap b.spine = {}
  /\ ~b.impatient /\ ~Cyclic(b) /\ Nothing \notin LoadType(b)

\* Every orderly book is one.
LEMMA OrderlyRight ==
  ASSUME NEW b \in OrderlyBooks
  PROVE  BookRight(b)
BY LoaderAssumption DEF OrderlyBooks, BookRight

\* The empty sequence,
LEMMA EmptySeqSet == ToSet(<< >>) = {} /\ \A S : << >> \in Seq(S)
BY DEF ToSet

\* an item appended to a sequence,
LEMMA AppendSet ==
  ASSUME NEW S, NEW s \in Seq(S), NEW e \in S
  PROVE  /\ Append(s, e) \in Seq(S) /\ Append(s, e) # << >>
         /\ ToSet(Append(s, e)) = ToSet(s) \union {e}
<1>1. /\ Append(s, e) \in Seq(S) /\ Len(Append(s, e)) = Len(s) + 1 /\ Len(s) \in Nat
      /\ \A i \in 1 .. Len(s) : Append(s, e)[i] = s[i]
      /\ Append(s, e)[Len(s) + 1] = e
  OBVIOUS
<1>2. ToSet(Append(s, e)) = ToSet(s) \union {e}
  BY <1>1 DEF ToSet
<1> QED BY <1>1, <1>2

\* and the sequence without its last item.
LEMMA FrontFacts ==
  ASSUME NEW S, NEW s \in Seq(S), s # << >>
  PROVE  /\ Front(s) \in Seq(S) /\ Last(s) \in S /\ Last(s) \in ToSet(s)
         /\ Len(s) \in Nat \ {0} /\ Len(Front(s)) = Len(s) - 1
         /\ \A i \in 1 .. Len(s) - 1 : Front(s)[i] = s[i]
         /\ Last(s) = s[Len(s)]
<1>1. Len(s) \in Nat \ {0}
  OBVIOUS
<1>2. 1 \in Nat /\ Len(s) - 1 \in Nat /\ 1 .. Len(s) - 1 \subseteq 1 .. Len(s)
  BY <1>1
<1>3. /\ SubSeq(s, 1, Len(s) - 1) \in Seq(S) /\ Len(SubSeq(s, 1, Len(s) - 1)) = Len(s) - 1
      /\ \A i \in 1 .. Len(s) - 1 : SubSeq(s, 1, Len(s) - 1)[i] = s[i]
  <2> DEFINE m == Len(s) - 1
  <2>1. \A i \in 1 .. m : s[i] \in S
    BY <1>1
  <2>2. m \in Int /\ 1 \in Int
    BY <1>1
  <2> HIDE DEF m
  <2>3. /\ SubSeq(s, 1, m) \in Seq(S) /\ Len(SubSeq(s, 1, m)) = IF 1 <= m THEN m - 1 + 1 ELSE 0
        /\ \A i \in 1 .. m - 1 + 1 : SubSeq(s, 1, m)[i] = s[1 + i - 1]
    BY <2>1, <2>2, SubSeqProperties
  <2>4. m \in Nat
    BY <1>2 DEF m
  <2>5. Len(SubSeq(s, 1, m)) = m
    BY <2>3, <2>4
  <2>6. \A i \in 1 .. m : SubSeq(s, 1, m)[i] = s[i]
    <3> SUFFICES ASSUME NEW i \in 1 .. m PROVE SubSeq(s, 1, m)[i] = s[i]
      OBVIOUS
    <3>1. i \in 1 .. m - 1 + 1 /\ 1 + i - 1 = i
      BY <2>4
    <3> QED BY <2>3, <3>1
  <2> QED BY <2>3, <2>5, <2>6 DEF m
<1>4. s[Len(s)] \in S /\ s[Len(s)] \in ToSet(s)
  BY <1>1 DEF ToSet
<1> QED BY <1>1, <1>3, <1>4 DEF Front, Last

\* A file has finitely many entries in a list,
LEMMA PlacesFinite ==
  ASSUME NEW S, NEW s \in Seq(S), NEW k
  PROVE  /\ IsFiniteSet(Places(s, k)) /\ Cardinality(Places(s, k)) \in Nat
         /\ Cardinality(Places(s, k)) = 0 <=> Places(s, k) = {}
<1>1. Places(s, k) \subseteq 1 .. Len(s) /\ IsFiniteSet(1 .. Len(s))
  BY FS_Interval DEF Places
<1>2. IsFiniteSet(Places(s, k))
  BY <1>1, FS_Subset
<1> QED BY <1>2, FS_CardinalityType, FS_EmptySet

\* one less when its last one is taken off,
LEMMA PlacesFront ==
  ASSUME NEW S, NEW s \in Seq(S), s # << >>, NEW k
  PROVE  /\ k = Last(s) => Cardinality(Places(s, k)) = Cardinality(Places(Front(s), k)) + 1
         /\ k # Last(s) => Cardinality(Places(s, k)) = Cardinality(Places(Front(s), k))
<1>1. /\ Front(s) \in Seq(S) /\ Len(s) \in Nat \ {0} /\ Len(Front(s)) = Len(s) - 1
      /\ \A i \in 1 .. Len(s) - 1 : Front(s)[i] = s[i]
      /\ Last(s) = s[Len(s)]
  BY FrontFacts
<1>2. IsFiniteSet(Places(Front(s), k)) /\ Cardinality(Places(Front(s), k)) \in Nat
  BY <1>1, PlacesFinite
<1>3. Len(s) \notin Places(Front(s), k)
  BY <1>1 DEF Places
<1>4. CASE k = Last(s)
  <2>1. Places(s, k) = Places(Front(s), k) \union {Len(s)}
    BY <1>1, <1>4 DEF Places
  <2> QED BY <1>2, <1>3, <1>4, <2>1, FS_AddElement, ZenonT(60)
<1>5. CASE k # Last(s)
  <2>1. Places(s, k) = Places(Front(s), k)
    BY <1>1, <1>5 DEF Places
  <2> QED BY <1>5, <2>1
<1> QED BY <1>4, <1>5

OnceEach(t) == \A i, j \in DOMAIN t : t[i] = t[j] => i = j

\* and those of two lists in their concatenation.
LEMMA PlacesConcat ==
  ASSUME NEW S, NEW s \in Seq(S), NEW t \in Seq(S), NEW k, OnceEach(t)
  PROVE  /\ k \in ToSet(t) => Cardinality(Places(s \o t, k)) = Cardinality(Places(s, k)) + 1
         /\ k \notin ToSet(t) => Cardinality(Places(s \o t, k)) = Cardinality(Places(s, k))
<1>1. /\ s \o t \in Seq(S) /\ Len(s) \in Nat /\ Len(t) \in Nat /\ Len(s \o t) = Len(s) + Len(t)
      /\ \A i \in 1 .. Len(s) : (s \o t)[i] = s[i]
      /\ \A i \in 1 .. Len(t) : (s \o t)[Len(s) + i] = t[i]
  OBVIOUS
<1>2. IsFiniteSet(Places(s, k)) /\ Cardinality(Places(s, k)) \in Nat
  BY PlacesFinite
<1>3. CASE k \in ToSet(t)
  <2>1. PICK j \in 1 .. Len(t) : t[j] = k
    BY <1>3 DEF ToSet
  <2>2. Len(s) + j \notin Places(s, k)
    BY <1>1 DEF Places
  <2>3. Places(s \o t, k) = Places(s, k) \union {Len(s) + j}
    <3>1. ASSUME NEW i \in 1 .. Len(s) + Len(t), (s \o t)[i] = k, i > Len(s) PROVE i = Len(s) + j
      <4>1. i - Len(s) \in 1 .. Len(t) /\ t[i - Len(s)] = k
        BY <1>1, <3>1
      <4>2. i - Len(s) \in DOMAIN t /\ j \in DOMAIN t
        BY <2>1, <4>1
      <4>3. i - Len(s) = j
        BY <2>1, <4>1, <4>2 DEF OnceEach
      <4> QED BY <1>1, <2>1, <4>3
    <3>2. Len(s) + j \in Places(s \o t, k)
      BY <1>1, <2>1 DEF Places
    <3> QED BY <1>1, <3>1, <3>2 DEF Places
  <2> QED BY <1>2, <1>3, <2>2, <2>3, FS_AddElement
<1>4. CASE k \notin ToSet(t)
  <2>1. ASSUME NEW i \in 1 .. Len(s) + Len(t), (s \o t)[i] = k PROVE i \in 1 .. Len(s)
    <3>1. SUFFICES ASSUME i > Len(s) PROVE FALSE
      BY <1>1
    <3>2. i - Len(s) \in 1 .. Len(t) /\ t[i - Len(s)] = k
      BY <1>1, <2>1, <3>1
    <3> QED BY <1>4, <3>2 DEF ToSet
  <2>2. Places(s \o t, k) = Places(s, k)
    BY <1>1, <2>1 DEF Places
  <2> QED BY <1>4, <2>2
<1> QED BY <1>3, <1>4

\* Finitely many files hold one,
LEMMA HoldersFinite ==
  ASSUME NEW b, BookRight(b), NEW lists, NEW k
  PROVE  /\ IsFiniteSet(Holders(b, lists, k)) /\ Cardinality(Holders(b, lists, k)) \in Nat
         /\ Cardinality(Holders(b, lists, k)) = 0 <=> Holders(b, lists, k) = {}
<1>1. Holders(b, lists, k) \in SUBSET (DOMAIN b.links) /\ IsFiniteSet(DOMAIN b.links)
  BY DEF Holders, BookRight
<1>2. IsFiniteSet(Holders(b, lists, k))
  BY <1>1, FS_Subset
<1> QED BY <1>2, FS_CardinalityType, FS_EmptySet

\* one less when the list of one of them is emptied,
LEMMA HoldersGone ==
  ASSUME NEW b, BookRight(b), NEW lists \in [DOMAIN b.links \union {Root} -> Seq(DOMAIN b.links)],
         NEW h \in DOMAIN b.links, NEW k
  PROVE  LET rest == [lists EXCEPT ![h] = << >>] IN
         /\ k \in ToSet(lists[h]) =>
              Cardinality(Holders(b, lists, k)) = Cardinality(Holders(b, rest, k)) + 1
         /\ k \notin ToSet(lists[h]) => Holders(b, lists, k) = Holders(b, rest, k)
<1> DEFINE rest == [lists EXCEPT ![h] = << >>]
<1>1. /\ rest[h] = << >> /\ ToSet(rest[h]) = {}
      /\ \A p \in DOMAIN b.links : p # h => rest[p] = lists[p]
  BY EmptySeqSet
<1> HIDE DEF rest
<1>2. IsFiniteSet(Holders(b, rest, k)) /\ Cardinality(Holders(b, rest, k)) \in Nat
  BY HoldersFinite
<1>3. h \notin Holders(b, rest, k)
  BY <1>1 DEF Holders
<1>4. CASE k \in ToSet(lists[h])
  <2>1. Holders(b, lists, k) = Holders(b, rest, k) \union {h}
    BY <1>1, <1>4 DEF Holders
  <2>2. Cardinality(Holders(b, lists, k)) = Cardinality(Holders(b, rest, k)) + 1
    BY <1>2, <1>3, <2>1, FS_AddElement
  <2> QED BY <1>4, <2>2 DEF rest
<1>5. CASE k \notin ToSet(lists[h])
  <2>1. Holders(b, lists, k) = Holders(b, rest, k)
    BY <1>1, <1>5 DEF Holders
  <2> QED BY <1>5, <2>1 DEF rest
<1> QED BY <1>4, <1>5

\* The lists with one more entry for p.
Appended(lists, p, h) == [lists EXCEPT ![p] = Append(@, h)]

ListsType(b) == [DOMAIN b.links \union {Root} -> Seq(DOMAIN b.links)]

\* and one more when it is appended to the list of another one.
LEMMA HoldersMore ==
  ASSUME NEW b, BookRight(b), NEW lists \in ListsType(b),
         NEW p \in DOMAIN b.links, NEW h \in DOMAIN b.links, h \notin ToSet(lists[p])
  PROVE  /\ Cardinality(Holders(b, Appended(lists, p, h), h)) = Cardinality(Holders(b, lists, h)) + 1
         /\ Holders(b, Appended(lists, p, h), h) # {}
         /\ \A k : k # h => Holders(b, Appended(lists, p, h), k) = Holders(b, lists, k)
<1> DEFINE more == Appended(lists, p, h)
<1>1. /\ more[p] = Append(lists[p], h) /\ lists[p] \in Seq(DOMAIN b.links)
      /\ \A q \in DOMAIN b.links : q # p => more[q] = lists[q]
  BY DEF Appended, ListsType
<1>2. ToSet(more[p]) = ToSet(lists[p]) \union {h}
  BY <1>1, AppendSet
<1>3. IsFiniteSet(Holders(b, lists, h)) /\ Cardinality(Holders(b, lists, h)) \in Nat
  BY HoldersFinite
<1>4. Holders(b, more, h) = Holders(b, lists, h) \union {p} /\ p \notin Holders(b, lists, h)
  BY <1>1, <1>2 DEF Holders
<1>5. Cardinality(Holders(b, more, h)) = Cardinality(Holders(b, lists, h)) + 1
  BY <1>3, <1>4, FS_AddElement
<1>6. \A k : k # h => Holders(b, more, k) = Holders(b, lists, k)
  BY <1>1, <1>2 DEF Holders
<1> QED BY <1>4, <1>5, <1>6

\* Emptying a list takes as many entries away as it has.
LEMMA EntriesGone ==
  ASSUME NEW b, BookRight(b), NEW lists \in [DOMAIN b.links \union {Root} -> Seq(DOMAIN b.links)],
         NEW h \in DOMAIN b.links
  PROVE  LET rest == [lists EXCEPT ![h] = << >>] IN
         /\ IsFiniteSet(Entries(lists)) /\ Cardinality(Entries(lists)) \in Nat
         /\ Cardinality(Entries(rest)) = Cardinality(Entries(lists)) - Len(lists[h])
<1> DEFINE rest == [lists EXCEPT ![h] = << >>]
           Of(p) == {<<p, i>> : i \in DOMAIN lists[p]}
           D == DOMAIN b.links \union {Root}
<1>1. \A p \in D : IsFiniteSet(Of(p)) /\ Cardinality(Of(p)) = Len(lists[p])
  <2> SUFFICES ASSUME NEW p \in D PROVE IsFiniteSet(Of(p)) /\ Cardinality(Of(p)) = Len(lists[p])
    OBVIOUS
  <2> DEFINE f == [i \in 1 .. Len(lists[p]) |-> <<p, i>>]
  <2>1. lists[p] \in Seq(DOMAIN b.links) /\ Len(lists[p]) \in Nat /\ DOMAIN lists[p] = 1 .. Len(lists[p])
    OBVIOUS
  <2>2. f \in Bijection(1 .. Len(lists[p]), Of(p))
    <3>1. f \in [1 .. Len(lists[p]) -> Of(p)]
      BY <2>1
    <3>2. \A i, j \in 1 .. Len(lists[p]) : f[i] = f[j] => i = j
      OBVIOUS
    <3>3. \A e \in Of(p) : \E i \in 1 .. Len(lists[p]) : f[i] = e
      BY <2>1
    <3> HIDE DEF f, Of
    <3> QED BY <3>1, <3>2, <3>3 DEF Bijection, Injection, Surjection, IsInjective
  <2>3. ExistsBijection(1 .. Len(lists[p]), Of(p))
    <3> HIDE DEF f, Of
    <3> QED BY <2>2 DEF ExistsBijection
  <2>4. IsFiniteSet(1 .. Len(lists[p])) /\ Cardinality(1 .. Len(lists[p])) = Len(lists[p])
    BY <2>1, FS_Interval
  <2> HIDE DEF Of
  <2> QED BY <2>3, <2>4, FS_Bijection
<1>2. Entries(lists) = UNION {Of(p) : p \in D} /\ DOMAIN rest = D
  BY DEF Entries
<1>3. IsFiniteSet(Entries(lists))
  <2>1. IsFiniteSet(D)
    BY FS_AddElement DEF BookRight
  <2> DEFINE T == {Of(p) : p \in D}
  <2>2. IsFiniteSet(T)
    <3> DEFINE g == [p \in D |-> Of(p)]
    <3>1. g \in Surjection(D, T)
      BY DEF Surjection
    <3> HIDE DEF g, T, D
    <3> QED BY <2>1, <3>1, FS_Surjection
  <2>3. \A t \in T : IsFiniteSet(t)
    BY <1>1
  <2>4. IsFiniteSet(UNION T)
    <3> HIDE DEF T
    <3> QED BY <2>2, <2>3, FS_UNION
  <2> QED BY <1>2, <2>4
<1>4. Entries(rest) = Entries(lists) \ Of(h) /\ Of(h) \subseteq Entries(lists)
  <2>1. rest[h] = << >> /\ DOMAIN rest[h] = {} /\ \A p \in D : p # h => rest[p] = lists[p]
    OBVIOUS
  <2>2. Entries(rest) = UNION {{<<p, i>> : i \in DOMAIN rest[p]} : p \in D}
    BY <1>2 DEF Entries
  <2>3. h \in D
    OBVIOUS
  <2> HIDE DEF rest, D
  <2> QED BY <1>2, <2>1, <2>2, <2>3
<1>5. h \in D /\ Entries(lists) \cap Of(h) = Of(h)
  BY <1>4
<1>6. Cardinality(Entries(lists) \ Of(h)) = Cardinality(Entries(lists)) - Cardinality(Of(h))
  <2> HIDE DEF Of, rest
  <2> QED BY <1>3, <1>5, FS_Difference, ZenonT(60)
<1>7. Cardinality(Entries(lists)) \in Nat
  BY <1>3, FS_CardinalityType
<1>8. Cardinality(Of(h)) = Len(lists[h])
  BY <1>1, <1>5
<1> HIDE DEF Of, D
<1> QED BY <1>3, <1>4, <1>6, <1>7, <1>8

\* Two sequences of files in a row.
LEMMA ConcatType ==
  ASSUME NEW S, NEW s \in Seq(S), NEW t \in Seq(S)
  PROVE  s \o t \in Seq(S) /\ Len(s \o t) = Len(s) + Len(t) /\ Len(s) \in Nat /\ Len(t) \in Nat
OBVIOUS

\* The counts when a file that goes hands its entries to the list of what is to be unreferenced.
LEMMA CountMoves ==
  ASSUME NEW x, NEW y, NEW z \in Nat, NEW w \in Nat, NEW v, NEW m, m = x + y, x = z + 1, y = w, v = w + 1
  PROVE  m = z + v
OBVIOUS

\* The entry of a file without a URL.
LEMMA KeptWithout ==
  ASSUME NEW b, BookRight(b), NEW bl, NEW c, NEW n, NEW lists, NEW lv,
         NEW todo \in Seq(DOMAIN b.links), todo # << >>,
         Kept(b, bl, c, n, lists, lv, todo, {}),
         c[Last(todo)] = Nothing
  PROVE  Kept(b, bl, c, n, lists, lv, Front(todo), {})
<1> DEFINE h == Last(todo)
<1>1. h \in DOMAIN b.links /\ Len(todo) \in Places(todo, h)
  BY FrontFacts DEF Places
<1>2. h \in b.spine
  BY <1>1 DEF Kept, CountsRight
<1>3. \A k \in DOMAIN b.links \ b.spine : Cardinality(Places(Front(todo), k)) = Cardinality(Places(todo, k))
  BY <1>2, PlacesFront
<1>4. \A k \in DOMAIN b.links \ b.spine : Places(todo, k) = {} => Places(Front(todo), k) = {}
  BY <1>3, PlacesFinite, FrontFacts
<1>5. CountsRight(b, c, n, lists, Front(todo))
  BY <1>3, <1>4 DEF Kept, CountsRight
<1> QED BY <1>5 DEF Kept

\* The entry of a file that others have.
LEMMA KeptLess ==
  ASSUME NEW b, BookRight(b), NEW bl, NEW c, NEW n, NEW lists, NEW lv,
         NEW todo \in Seq(DOMAIN b.links), todo # << >>,
         Kept(b, bl, c, n, lists, lv, todo, {}),
         c[Last(todo)] # Nothing, n[Last(todo)] > 1
  PROVE  Kept(b, bl, c, [n EXCEPT ![Last(todo)] = @ - 1], lists, lv, Front(todo), {})
<1> DEFINE h == Last(todo)
           m == [n EXCEPT ![h] = @ - 1]
<1>1. h \in DOMAIN b.links /\ n \in [DOMAIN b.links -> Nat] /\ n[h] \in Nat
  BY FrontFacts DEF Kept, LoaderType
<1>2. m \in [DOMAIN b.links -> Nat] /\ m[h] = n[h] - 1 /\ m[h] > 0
      /\ \A k \in DOMAIN b.links : k # h => m[k] = n[k]
  <2>1. n[h] - 1 \in Nat /\ n[h] - 1 > 0
    BY <1>1
  <2> QED BY <1>1, <2>1
<1> HIDE DEF m
<1>3. \A k \in DOMAIN b.links : k # h => Cardinality(Places(Front(todo), k)) = Cardinality(Places(todo, k))
  BY PlacesFront
<1>4. \A k \in DOMAIN b.links : k # h /\ Places(todo, k) = {} => Places(Front(todo), k) = {}
  BY <1>3, PlacesFinite, FrontFacts
<1>5. /\ Cardinality(Places(todo, h)) = Cardinality(Places(Front(todo), h)) + 1
      /\ Cardinality(Places(Front(todo), h)) \in Nat /\ Cardinality(Holders(b, lists, h)) \in Nat
  BY PlacesFront, PlacesFinite, FrontFacts, HoldersFinite
<1>6. CountsRight(b, c, m, lists, Front(todo))
  <2> SUFFICES ASSUME NEW k \in DOMAIN b.links \ b.spine
      PROVE /\ c[k] # Nothing => m[k] > 0 /\ m[k] = Cardinality(Holders(b, lists, k)) + Cardinality(Places(Front(todo), k))
            /\ c[k] = Nothing => Holders(b, lists, k) = {} /\ Places(Front(todo), k) = {}
    BY Zenon DEF CountsRight
  <2>1. /\ c[k] # Nothing => n[k] > 0 /\ n[k] = Cardinality(Holders(b, lists, k)) + Cardinality(Places(todo, k))
        /\ c[k] = Nothing => Holders(b, lists, k) = {} /\ Places(todo, k) = {}
    BY DEF Kept, CountsRight
  <2>2. CASE k = h
    BY <1>2, <1>5, <2>1, <2>2
  <2>3. CASE k # h
    BY <1>2, <1>3, <1>4, <2>1, <2>3
  <2> QED BY <2>2, <2>3
<1>7. LoaderType(b, bl, c, m, lists)
  BY <1>2 DEF Kept, LoaderType
<1> QED BY <1>6, <1>7 DEF Kept, m

\* The last entry of a file that no other one has: it goes, and what it has is to go.
LEMMA KeptGone ==
  ASSUME NEW b, BookRight(b), NEW bl, NEW c, NEW n, NEW lists, NEW lv,
         NEW todo \in Seq(DOMAIN b.links), todo # << >>,
         Kept(b, bl, c, n, lists, lv, todo, {}),
         c[Last(todo)] # Nothing, ~(n[Last(todo)] > 1)
  PROVE  Kept(b, bl, [c EXCEPT ![Last(todo)] = Nothing], [n EXCEPT ![Last(todo)] = 0],
              [lists EXCEPT ![Last(todo)] = << >>], lv \ {c[Last(todo)]},
              Front(todo) \o lists[Last(todo)], {})
<1> DEFINE h == Last(todo)
           H == DOMAIN b.links
           c2 == [c EXCEPT ![h] = Nothing]
           n2 == [n EXCEPT ![h] = 0]
           lists2 == [lists EXCEPT ![h] = << >>]
           rest == Front(todo) \o lists[h]
<1>1. /\ h \in H /\ LoaderType(b, bl, c, n, lists) /\ Layered(bl) /\ UrlsRight(b, bl, c, lists, lv)
      /\ ListsRight(b, c, lists, {}) /\ CountsRight(b, c, n, lists, todo)
      /\ Front(todo) \in Seq(H)
  BY FrontFacts DEF Kept
<1>2. /\ bl \in Seq(SUBSET Nat)
      /\ c \in [H -> (1 .. Len(bl)) \union {Nothing}]
      /\ n \in [H -> Nat]
      /\ lists \in [H \union {Root} -> Seq(H)]
  BY <1>1 DEF LoaderType
<1>3. c2 \in [H -> (1 .. Len(bl)) \union {Nothing}] /\ c2[h] = Nothing /\ \A k \in H : k # h => c2[k] = c[k]
  BY <1>1, <1>2
<1>4. n2 \in [H -> Nat] /\ \A k \in H : k # h => n2[k] = n[k]
  BY <1>1, <1>2
<1>5. /\ lists2 \in [H \union {Root} -> Seq(H)] /\ lists2[h] = << >> /\ lists[h] \in Seq(H)
      /\ \A k \in H : k # h => lists2[k] = lists[k]
  BY <1>1, <1>2, EmptySeqSet
<1>6. h \in b.spine \/ (Cardinality(Holders(b, lists, h)) = 0 /\ Cardinality(Places(todo, h)) = 1)
  <2>1. SUFFICES ASSUME h \in H \ b.spine
        PROVE  Cardinality(Holders(b, lists, h)) = 0 /\ Cardinality(Places(todo, h)) = 1
    BY <1>1
  <2>2. n[h] = Cardinality(Holders(b, lists, h)) + Cardinality(Places(todo, h))
    BY <1>1, <2>1 DEF CountsRight
  <2>3. Cardinality(Places(todo, h)) = Cardinality(Places(Front(todo), h)) + 1
    BY PlacesFront
  <2>4. Cardinality(Places(Front(todo), h)) \in Nat /\ Cardinality(Holders(b, lists, h)) \in Nat
    BY <1>1, PlacesFinite, HoldersFinite
  <2>5. n[h] \in Nat /\ ~(n[h] > 1)
    BY <1>1, <1>2
  <2> QED BY <2>2, <2>3, <2>4, <2>5
<1>7. \A p \in H : h \notin ToSet(lists[p])
  <2>1. CASE h \in b.spine
    BY <1>1, <2>1 DEF ListsRight, BookRight
  <2>2. CASE Cardinality(Holders(b, lists, h)) = 0
    BY <2>2, HoldersFinite DEF Holders
  <2> QED BY <1>6, <2>1, <2>2
<1>8. h \notin b.spine => Places(rest, h) = {}
  <2>1. SUFFICES ASSUME h \notin b.spine PROVE Places(rest, h) = {}
    OBVIOUS
  <2>2. Cardinality(Places(Front(todo), h)) = 0
    <3>1. Cardinality(Places(Front(todo), h)) \in Nat
      BY <1>1, PlacesFinite
    <3>2. Cardinality(Places(todo, h)) = Cardinality(Places(Front(todo), h)) + 1
      BY PlacesFront
    <3> QED BY <1>6, <2>1, <3>1, <3>2
  <2>3. OnceEach(lists[h]) /\ lists[h] \in Seq(H) /\ Front(todo) \in Seq(H)
    BY <1>1, <1>5 DEF ListsRight, OnceEach
  <2>4. Cardinality(Places(rest, h)) = 0
    <3>1. h \notin ToSet(lists[h])
      <4> HIDE DEF h, H
      <4> QED BY <1>1, <1>7
    <3> QED BY <2>2, <2>3, <3>1, PlacesConcat DEF rest
  <2>5. rest \in Seq(H)
    <3>1. Front(todo) \in Seq(H) /\ lists[h] \in Seq(H)
      BY <1>1, <1>5
    <3> QED BY <3>1, ConcatType
  <2> HIDE DEF rest
  <2> QED BY <2>4, <2>5, PlacesFinite
<1> HIDE DEF c2, n2, rest, h, lists2
<1>9. LoaderType(b, bl, c2, n2, lists2)
  BY <1>2, <1>3, <1>4, <1>5 DEF LoaderType
<1>10. UrlsRight(b, bl, c2, lists2, lv \ {c[h]})
  <2>1. /\ lv = {c[k] : k \in {q \in H : c[q] # Nothing}}
        /\ \A k, q \in H : c[k] # Nothing /\ c[k] = c[q] => k = q
        /\ \A k \in H : c[k] # Nothing => Agrees(bl[c[k]], UrlsOf(c, lists[k]))
    BY <1>1 DEF UrlsRight
  <2>2. lv \ {c[h]} = {c2[k] : k \in {q \in H : c2[q] # Nothing}}
    <3>1. ASSUME NEW u \in lv \ {c[h]} PROVE \E k \in H : c2[k] # Nothing /\ u = c2[k]
      BY <1>3, <2>1, <3>1
    <3>2. ASSUME NEW k \in H, c2[k] # Nothing PROVE c2[k] \in lv \ {c[h]}
      BY <1>1, <1>3, <2>1, <3>2
    <3> QED BY <3>1, <3>2
  <2>3. \A k, q \in H : c2[k] # Nothing /\ c2[k] = c2[q] => k = q
    BY <1>3, <2>1
  <2>4. ASSUME NEW k \in H, c2[k] # Nothing PROVE Agrees(bl[c2[k]], UrlsOf(c2, lists2[k]))
    <3>1. k # h /\ c2[k] = c[k] /\ lists2[k] = lists[k] /\ Agrees(bl[c[k]], UrlsOf(c, lists[k]))
      BY <1>3, <1>5, <2>1, <2>4
    <3>2. lists[k] \in Seq(H) /\ ToSet(lists[k]) \subseteq H
      BY <1>2 DEF ToSet
    <3>3. \A q \in ToSet(lists[k]) : c2[q] = c[q]
      BY <1>3, <1>7, <3>2
    <3>4. UrlsOf(c, lists[k]) = UrlsOf(c2, lists[k])
      BY <3>3 DEF UrlsOf
    <3> QED BY <3>1, <3>4
  <2> QED BY <2>2, <2>3, <2>4 DEF UrlsRight
<1>11. ListsRight(b, c2, lists2, {})
  <2>1. /\ \A p \in H : ToSet(lists[p]) \subseteq ToSet(b.links[p])
        /\ \A p \in H : \A i, j \in DOMAIN lists[p] : lists[p][i] = lists[p][j] => i = j
        /\ \A p \in H : \A k \in ToSet(lists[p]) : c[k] # Nothing
        /\ \A p \in H : ~failed /\ lists[p] # << >> => c[p] # Nothing
    BY <1>1 DEF ListsRight
  <2>2. ToSet(lists2[h]) = {} /\ DOMAIN lists2[h] = {}
    BY <1>5, EmptySeqSet
  <2>3. \A p \in H : lists2[p] = lists[p] \/ (ToSet(lists2[p]) = {} /\ DOMAIN lists2[p] = {})
    BY <1>5, <2>2
  <2>4. \A p \in H : ToSet(lists[p]) \subseteq H
    BY <1>2 DEF ToSet
  <2>5. \A p \in H : \A k \in ToSet(lists2[p]) : c2[k] # Nothing
    BY <1>3, <1>7, <2>1, <2>3, <2>4, ZenonT(60)
  <2>6. \A p \in H : ~failed /\ lists2[p] # << >> => c2[p] # Nothing
    BY <1>3, <1>5, <2>1
  <2>7. \A p \in H : ToSet(lists2[p]) \subseteq ToSet(b.links[p])
    BY <2>1, <2>3
  <2>8. \A p \in H : \A i, j \in DOMAIN lists2[p] : lists2[p][i] = lists2[p][j] => i = j
    BY <2>1, <2>3
  <2> QED BY <2>5, <2>6, <2>7, <2>8 DEF ListsRight
<1>12. CountsRight(b, c2, n2, lists2, rest)
  <2> SUFFICES ASSUME NEW k \in H \ b.spine
      PROVE /\ c2[k] # Nothing => n2[k] > 0 /\ n2[k] = Cardinality(Holders(b, lists2, k)) + Cardinality(Places(rest, k))
            /\ c2[k] = Nothing => Holders(b, lists2, k) = {} /\ Places(rest, k) = {}
    BY Zenon DEF CountsRight
  <2>1. /\ c[k] # Nothing => n[k] > 0 /\ n[k] = Cardinality(Holders(b, lists, k)) + Cardinality(Places(todo, k))
        /\ c[k] = Nothing => Holders(b, lists, k) = {} /\ Places(todo, k) = {}
    BY <1>1 DEF CountsRight
  <2>2. CASE k = h
    <3>1. Holders(b, lists2, k) = {}
      <4>1. ASSUME NEW p \in H PROVE k \notin ToSet(lists2[p])
        BY <1>5, <1>7, <2>2, EmptySeqSet
      <4> QED BY <4>1 DEF Holders
    <3> QED BY <1>3, <1>8, <2>2, <3>1
  <2>3. CASE k # h
    <3>1. /\ c2[k] = c[k] /\ n2[k] = n[k]
          /\ Cardinality(Places(Front(todo), k)) = Cardinality(Places(todo, k))
      BY <1>3, <1>4, <2>3, PlacesFront DEF h
    <3>2. OnceEach(lists[h]) /\ lists[h] \in Seq(H) /\ Front(todo) \in Seq(H)
      BY <1>1, <1>2, <1>5 DEF ListsRight, OnceEach
    <3>3. /\ Cardinality(Places(Front(todo), k)) \in Nat /\ Cardinality(Holders(b, lists2, k)) \in Nat
          /\ Places(todo, k) = {} => Cardinality(Places(todo, k)) = 0
          /\ Cardinality(Places(rest, k)) = 0 <=> Places(rest, k) = {}
          /\ Cardinality(Holders(b, lists2, k)) = 0 <=> Holders(b, lists2, k) = {}
          /\ rest \in Seq(H)
      <4>1. rest \in Seq(H)
        BY <1>1, <1>5, ConcatType DEF rest
      <4>2. Front(todo) \in Seq(H) /\ todo \in Seq(H) /\ BookRight(b)
        BY <1>1
      <4> QED BY <4>1, <4>2, PlacesFinite, HoldersFinite
    <3>4. CASE k \in ToSet(lists[h])
      <4>1. Cardinality(Places(rest, k)) = Cardinality(Places(Front(todo), k)) + 1
        BY <3>2, <3>4, PlacesConcat DEF rest
      <4>2. Cardinality(Holders(b, lists, k)) = Cardinality(Holders(b, lists2, k)) + 1
        <5>1. h \in H /\ lists \in [H \union {Root} -> Seq(H)]
          BY <1>1, <1>2
        <5> HIDE DEF H
        <5> QED BY <3>4, <5>1, HoldersGone, ZenonT(60) DEF lists2, H
      <4>3. c[k] # Nothing
        BY <1>1, <3>4 DEF ListsRight
      <4>4. n[k] > 0 /\ n[k] = Cardinality(Holders(b, lists, k)) + Cardinality(Places(todo, k))
        BY <2>1, <4>3
      <4>5. n[k] = Cardinality(Holders(b, lists2, k)) + Cardinality(Places(rest, k))
        BY <3>1, <3>3, <4>1, <4>2, <4>4, CountMoves
      <4> QED BY <3>1, <4>3, <4>4, <4>5
    <3>5. CASE k \notin ToSet(lists[h])
      <4>1. Cardinality(Places(rest, k)) = Cardinality(Places(Front(todo), k))
        BY <3>2, <3>5, PlacesConcat DEF rest
      <4>2. Holders(b, lists, k) = Holders(b, lists2, k)
        <5>1. h \in H /\ lists \in [H \union {Root} -> Seq(H)]
          BY <1>1, <1>2
        <5> HIDE DEF H
        <5> QED BY <3>5, <5>1, HoldersGone, ZenonT(60) DEF lists2, H
      <4> QED BY <2>1, <3>1, <3>3, <4>1, <4>2
    <3> QED BY <3>4, <3>5
  <2> QED BY <2>2, <2>3
<1>13. Kept(b, bl, c2, n2, lists2, lv \ {c[h]}, rest, {})
  BY <1>1, <1>9, <1>10, <1>11, <1>12 DEF Kept
<1> QED BY <1>13 DEF c2, n2, lists2, rest, h

\* A set of naturals that is not empty has a least element.
LEMMA LeastNatural ==
  ASSUME NEW B \in SUBSET Nat, B # {}
  PROVE  \E b \in B : \A x \in B : b <= x
<1> DEFINE T == {1 .. b : b \in B}
           R == StrictSubsetOrdering(Nat)
<1>1. T \subseteq FiniteSubsetsOf(Nat) /\ T # {}
  <2>1. \A b \in B : 1 .. b \in SUBSET Nat /\ IsFiniteSet(1 .. b)
    BY FS_Interval
  <2> QED BY <2>1 DEF FiniteSubsetsOf
<1>2. \E x \in T : \A y \in T : <<y, x>> \notin R
  <2>1. IsWellFoundedOn(R, FiniteSubsetsOf(Nat))
    BY FS_StrictSubsetOrderingWellFounded
  <2> HIDE DEF T, R
  <2> QED BY <1>1, <2>1, WFMin
<1>3. PICK b \in B : \A y \in T : <<y, 1 .. b>> \notin R
  BY <1>2
<1>4. ASSUME NEW x \in B, x < b PROVE FALSE
  <2>1. <<1 .. x, 1 .. b>> \notin R
    BY <1>3
  <2>2. 1 .. x \subseteq 1 .. b /\ b \in 1 .. b /\ b \notin 1 .. x
    BY <1>4
  <2>3. 1 .. x # 1 .. b /\ 1 .. x \in SUBSET Nat /\ 1 .. b \in SUBSET Nat
    BY <2>2
  <2> QED BY <2>1, <2>2, <2>3 DEF StrictSubsetOrdering
<1> QED BY <1>4

WorkType(b, bl) ==
  [todo : Seq(DOMAIN b.links), cache : [DOMAIN b.links -> (1 .. Len(bl)) \union {Nothing}],
   count : [DOMAIN b.links -> Nat],
   children : [DOMAIN b.links \union {Root} -> Seq(DOMAIN b.links)], live : SUBSET Nat]

\* A call of unref goes one of three ways.
UnrefWays(s, t) ==
  LET h == Last(s.todo) IN
  \/ /\ s.cache[h] = Nothing /\ t.todo = Front(s.todo) /\ t.cache = s.cache
     /\ t.count = s.count /\ t.children = s.children /\ t.live = s.live
  \/ /\ s.cache[h] # Nothing /\ s.count[h] > 1
     /\ t.todo = Front(s.todo) /\ t.cache = s.cache
     /\ t.count = [s.count EXCEPT ![h] = @ - 1] /\ t.children = s.children /\ t.live = s.live
  \/ /\ s.cache[h] # Nothing /\ ~(s.count[h] > 1)
     /\ t.todo = Front(s.todo) \o s.children[h]
     /\ t.cache = [s.cache EXCEPT ![h] = Nothing]
     /\ t.count = [s.count EXCEPT ![h] = 0]
     /\ t.children = [s.children EXCEPT ![h] = << >>]
     /\ t.live = s.live \ {s.cache[h]}

\* The three ways of a call of unref,
LEMMA UnrefOneWays ==
  ASSUME NEW b, BookRight(b), NEW bl, NEW s \in WorkType(b, bl), s.todo # << >>
  PROVE  UnrefOne(s) \in WorkType(b, bl) /\ UnrefWays(s, UnrefOne(s))
<1> DEFINE h == Last(s.todo)
           rest == Front(s.todo)
           c == [s.cache EXCEPT ![h] = Nothing]
           less == [s.count EXCEPT ![h] = @ - 1]
           none == [s.count EXCEPT ![h] = 0]
           lists == [s.children EXCEPT ![h] = << >>]
           more == rest \o s.children[h]
           live2 == s.live \ {s.cache[h]}
<1>1. /\ s.todo \in Seq(DOMAIN b.links) /\ s.cache \in [DOMAIN b.links -> (1 .. Len(bl)) \union {Nothing}]
      /\ s.count \in [DOMAIN b.links -> Nat]
      /\ s.children \in [DOMAIN b.links \union {Root} -> Seq(DOMAIN b.links)] /\ s.live \in SUBSET Nat
  BY DEF WorkType
<1>2. h \in DOMAIN b.links /\ rest \in Seq(DOMAIN b.links)
  BY <1>1, FrontFacts
<1>3. c \in [DOMAIN b.links -> (1 .. Len(bl)) \union {Nothing}] /\ none \in [DOMAIN b.links -> Nat]
      /\ lists \in [DOMAIN b.links \union {Root} -> Seq(DOMAIN b.links)] /\ live2 \in SUBSET Nat
  BY <1>1, EmptySeqSet
<1>4. more \in Seq(DOMAIN b.links)
  <2>1. s.children[h] \in Seq(DOMAIN b.links)
    BY <1>1, <1>2
  <2> QED BY <1>2, <2>1, ConcatType
<1>5. s.count[h] > 1 => less \in [DOMAIN b.links -> Nat]
  <2> HAVE s.count[h] > 1
  <2>1. s.count[h] - 1 \in Nat
    BY <1>1, <1>2
  <2> QED BY <1>1, <2>1
<1> HIDE DEF h, rest, c, less, none, lists, more, live2
<1>6. UnrefOne(s) =
        CASE s.cache[h] = Nothing -> [s EXCEPT !.todo = rest]
          [] s.cache[h] # Nothing /\ s.count[h] > 1 -> [s EXCEPT !.todo = rest, !.count = less]
          [] OTHER -> [s EXCEPT !.todo = more, !.live = live2, !.cache = c, !.count = none, !.children = lists]
  BY DEF UnrefOne, WorkType, h, rest, c, less, none, lists, more, live2
<1>7. CASE s.cache[h] = Nothing
  <2>1. UnrefOne(s) = [s EXCEPT !.todo = rest]
    BY <1>6, <1>7
  <2> HIDE DEF UnrefOne
  <2>2. UnrefOne(s) \in WorkType(b, bl)
    BY <1>2, <2>1 DEF WorkType
  <2>3. /\ UnrefOne(s).todo = rest /\ UnrefOne(s).cache = s.cache /\ UnrefOne(s).live = s.live
        /\ UnrefOne(s).count = s.count /\ UnrefOne(s).children = s.children
    BY <2>1 DEF WorkType
  <2> QED BY <1>7, <2>2, <2>3 DEF h, rest, UnrefWays
<1>8. CASE s.cache[h] # Nothing /\ s.count[h] > 1
  <2>1. UnrefOne(s) = [s EXCEPT !.todo = rest, !.count = less]
    BY <1>6, <1>8
  <2> HIDE DEF UnrefOne
  <2>2. UnrefOne(s) \in WorkType(b, bl)
    BY <1>2, <1>5, <1>8, <2>1 DEF WorkType
  <2>3. /\ UnrefOne(s).todo = rest /\ UnrefOne(s).cache = s.cache /\ UnrefOne(s).live = s.live
        /\ UnrefOne(s).count = less /\ UnrefOne(s).children = s.children
    BY <2>1 DEF WorkType
  <2> QED BY <1>8, <2>2, <2>3 DEF h, rest, less, UnrefWays
<1>9. CASE s.cache[h] # Nothing /\ ~(s.count[h] > 1)
  <2>1. UnrefOne(s) = [s EXCEPT !.todo = more, !.live = live2, !.cache = c, !.count = none, !.children = lists]
    BY <1>6, <1>9
  <2> HIDE DEF UnrefOne
  <2>2. UnrefOne(s) \in WorkType(b, bl)
    BY <1>3, <1>4, <2>1 DEF WorkType
  <2>3. /\ UnrefOne(s).todo = more /\ UnrefOne(s).cache = c /\ UnrefOne(s).live = live2
        /\ UnrefOne(s).count = none /\ UnrefOne(s).children = lists
    BY <2>1 DEF WorkType
  <2> QED BY <1>9, <2>2, <2>3 DEF h, rest, more, c, live2, none, lists, UnrefWays
<1> QED BY <1>7, <1>8, <1>9

\* What holds of the list of what is to be unreferenced and of the rest while the section old
\* is unloaded.
LoopRight(b, bl, c, n, old, s) ==
  /\ s \in WorkType(b, bl)
  /\ Kept(b, bl, s.cache, s.count, s.children, s.live, s.todo, {})
  /\ \A i \in DOMAIN s.todo : s.todo[i] \notin b.spine \/ s.todo[i] = old
  /\ \A q \in b.spine : q # old => s.cache[q] = c[q] /\ s.count[q] = n[q]

\* The calls that are left, at most.
CallsLeft(s) == Len(s.todo) + Cardinality(Entries(s.children))

\* each of which leaves one call less, and the rest right.
LEMMA LoopStep ==
  ASSUME NEW b, BookRight(b), NEW bl, NEW c, NEW n, NEW old \in b.spine, NEW s,
         LoopRight(b, bl, c, n, old, s), s.todo # << >>
  PROVE  /\ LoopRight(b, bl, c, n, old, UnrefOne(s))
         /\ CallsLeft(s) \in Nat /\ CallsLeft(UnrefOne(s)) = CallsLeft(s) - 1
         /\ s.cache[old] = Nothing => UnrefOne(s).cache[old] = Nothing
         /\ Last(s.todo) = old /\ s.count[old] = 1 => UnrefOne(s).cache[old] = Nothing
<1> DEFINE h == Last(s.todo)
           t == UnrefOne(s)
           H == DOMAIN b.links
<1>1. /\ s \in WorkType(b, bl) /\ Kept(b, bl, s.cache, s.count, s.children, s.live, s.todo, {})
      /\ \A q \in b.spine : q # old => s.cache[q] = c[q] /\ s.count[q] = n[q]
      /\ \A i \in DOMAIN s.todo : s.todo[i] \notin b.spine \/ s.todo[i] = old
  BY Zenon DEF LoopRight
<1>2. /\ s.todo \in Seq(H) /\ s.cache \in [H -> (1 .. Len(bl)) \union {Nothing}]
      /\ s.count \in [H -> Nat]
      /\ s.children \in [H \union {Root} -> Seq(H)] /\ s.live \in SUBSET Nat
  BY <1>1 DEF WorkType
<1>3. /\ h \in H /\ Front(s.todo) \in Seq(H) /\ h \in ToSet(s.todo)
      /\ Len(s.todo) \in Nat \ {0} /\ Len(Front(s.todo)) = Len(s.todo) - 1
      /\ \A i \in 1 .. Len(s.todo) - 1 : Front(s.todo)[i] = s.todo[i]
      /\ h = s.todo[Len(s.todo)]
  BY <1>2, FrontFacts
<1>4. /\ t \in WorkType(b, bl)
      /\ \/ /\ s.cache[h] = Nothing /\ t.todo = Front(s.todo) /\ t.cache = s.cache
            /\ t.count = s.count /\ t.children = s.children /\ t.live = s.live
         \/ /\ s.cache[h] # Nothing /\ s.count[h] > 1
            /\ t.todo = Front(s.todo) /\ t.cache = s.cache
            /\ t.count = [s.count EXCEPT ![h] = @ - 1] /\ t.children = s.children /\ t.live = s.live
         \/ /\ s.cache[h] # Nothing /\ ~(s.count[h] > 1)
            /\ t.todo = Front(s.todo) \o s.children[h]
            /\ t.cache = [s.cache EXCEPT ![h] = Nothing]
            /\ t.count = [s.count EXCEPT ![h] = 0]
            /\ t.children = [s.children EXCEPT ![h] = << >>]
            /\ t.live = s.live \ {s.cache[h]}
  <2>1. t \in WorkType(b, bl) /\ UnrefWays(s, t)
    BY <1>1, UnrefOneWays
  <2> HIDE DEF t
  <2> QED BY <2>1 DEF UnrefWays
<1> HIDE DEF t
<1>5. h \notin b.spine \/ h = old
  BY <1>1, <1>2, <1>3
<1>6. \A i \in DOMAIN Front(s.todo) : Front(s.todo)[i] \notin b.spine \/ Front(s.todo)[i] = old
  <2>1. DOMAIN Front(s.todo) = 1 .. Len(s.todo) - 1 /\ 1 .. Len(s.todo) - 1 \subseteq DOMAIN s.todo
    BY <1>2, <1>3, SMTT(30)
  <2>2. \A i \in 1 .. Len(s.todo) - 1 : Front(s.todo)[i] = s.todo[i] /\ i \in DOMAIN s.todo
    BY <1>3, <2>1
  <2> QED BY <1>1, <2>1, <2>2
<1>7. IsFiniteSet(Entries(s.children)) /\ Cardinality(Entries(s.children)) \in Nat
  BY <1>2, <1>3, EntriesGone
<1>8. CallsLeft(s) \in Nat
  BY <1>3, <1>7 DEF CallsLeft
<1> HIDE DEF h
<1>9. CASE s.cache[h] = Nothing
  <2>1. /\ t.todo = Front(s.todo) /\ t.cache = s.cache
        /\ t.count = s.count /\ t.children = s.children /\ t.live = s.live
    BY <1>4, <1>9
  <2>2. Kept(b, bl, t.cache, t.count, t.children, t.live, t.todo, {})
    BY <1>1, <1>2, <1>9, <2>1, KeptWithout DEF h
  <2>3. LoopRight(b, bl, c, n, old, t)
    BY <1>1, <1>4, <1>6, <2>1, <2>2 DEF LoopRight
  <2>4. CallsLeft(t) = CallsLeft(s) - 1
    BY <1>3, <1>7, <2>1 DEF CallsLeft
  <2> QED BY <1>8, <1>9, <2>1, <2>3, <2>4 DEF t, h
<1>10. CASE s.cache[h] # Nothing /\ s.count[h] > 1
  <2>1. /\ t.todo = Front(s.todo) /\ t.cache = s.cache
        /\ t.count = [s.count EXCEPT ![h] = @ - 1] /\ t.children = s.children /\ t.live = s.live
    BY <1>4, <1>10
  <2>2. Kept(b, bl, t.cache, t.count, t.children, t.live, t.todo, {})
    BY <1>1, <1>2, <1>10, <2>1, KeptLess DEF h
  <2>3. \A q \in H : q # h => t.count[q] = s.count[q]
    BY <1>2, <2>1
  <2>4. \A q \in b.spine : q # old => t.cache[q] = c[q] /\ t.count[q] = n[q]
    BY <1>1, <1>5, <2>1, <2>3 DEF BookRight
  <2>5. LoopRight(b, bl, c, n, old, t)
    BY <1>4, <1>6, <2>1, <2>2, <2>4 DEF LoopRight
  <2>6. CallsLeft(t) = CallsLeft(s) - 1
    BY <1>3, <1>7, <2>1 DEF CallsLeft
  <2> QED BY <1>8, <1>10, <2>1, <2>5, <2>6 DEF t, h
<1>11. CASE s.cache[h] # Nothing /\ ~(s.count[h] > 1)
  <2>1. /\ t.todo = Front(s.todo) \o s.children[h]
        /\ t.cache = [s.cache EXCEPT ![h] = Nothing]
        /\ t.count = [s.count EXCEPT ![h] = 0]
        /\ t.children = [s.children EXCEPT ![h] = << >>]
        /\ t.live = s.live \ {s.cache[h]}
    BY <1>4, <1>11
  <2>2. Kept(b, bl, t.cache, t.count, t.children, t.live, t.todo, {})
    <3>1. s.todo \in Seq(H) /\ s.todo # << >> /\ s.cache[Last(s.todo)] # Nothing /\ ~(s.count[Last(s.todo)] > 1)
      BY <1>2, <1>11 DEF h
    <3>2. Kept(b, bl, [s.cache EXCEPT ![Last(s.todo)] = Nothing], [s.count EXCEPT ![Last(s.todo)] = 0],
               [s.children EXCEPT ![Last(s.todo)] = << >>], s.live \ {s.cache[Last(s.todo)]},
               Front(s.todo) \o s.children[Last(s.todo)], {})
      BY <1>1, <3>1, KeptGone
    <3> QED BY <2>1, <3>2, Zenon DEF h
  <2>3. \A q \in H : q # h => t.count[q] = s.count[q] /\ t.cache[q] = s.cache[q]
    BY <1>2, <2>1
  <2>4. \A q \in b.spine : q # old => t.cache[q] = c[q] /\ t.count[q] = n[q]
    BY <1>1, <1>5, <2>3 DEF BookRight
  <2>5. t.cache[h] = Nothing
    BY <1>2, <1>3, <2>1
  <2>6. /\ s.children[h] \in Seq(H)
        /\ \A i \in DOMAIN s.children[h] : s.children[h][i] \notin b.spine
    <3>1. s.children[h] \in Seq(H)
      BY <1>2, <1>3
    <3>2. ToSet(s.children[h]) \subseteq ToSet(b.links[h]) /\ ToSet(b.links[h]) \cap b.spine = {}
      BY <1>1, <1>3 DEF Kept, ListsRight, BookRight
    <3>3. \A i \in DOMAIN s.children[h] : s.children[h][i] \in ToSet(s.children[h])
      BY DEF ToSet
    <3> QED BY <3>1, <3>2, <3>3
  <2>7. \A i \in DOMAIN t.todo : t.todo[i] \notin b.spine \/ t.todo[i] = old
    <3> DEFINE f == Front(s.todo)
               d == s.children[h]
    <3>1. /\ f \in Seq(H) /\ d \in Seq(H) /\ \A i \in DOMAIN f : f[i] \notin b.spine \/ f[i] = old
          /\ \A i \in DOMAIN d : d[i] \notin b.spine
      BY <1>3, <1>6, <2>6
    <3> HIDE DEF f, d
    <3>0. DOMAIN (f \o d) = 1 .. Len(f) + Len(d)
      BY <3>1
    <3> SUFFICES ASSUME NEW i \in 1 .. Len(f) + Len(d) PROVE (f \o d)[i] \notin b.spine \/ (f \o d)[i] = old
      BY <2>1, <3>0, Zenon DEF f, d
    <3>2. CASE i <= Len(f)
      BY <3>1, <3>2
    <3>3. CASE i > Len(f)
      <4>1. i - Len(f) \in DOMAIN d /\ (f \o d)[i] = d[i - Len(f)]
        BY <3>1, <3>3
      <4> QED BY <3>1, <4>1
    <3>4. Len(f) \in Nat
      BY <3>1
    <3> QED BY <3>2, <3>3, <3>4
  <2>8. LoopRight(b, bl, c, n, old, t)
    BY <1>4, <2>2, <2>4, <2>7 DEF LoopRight
  <2>9. CallsLeft(t) = CallsLeft(s) - 1
    <3>1. Cardinality(Entries(t.children)) = Cardinality(Entries(s.children)) - Len(s.children[h])
      <4> DEFINE e == [s.children EXCEPT ![h] = << >>]
      <4>1. Cardinality(Entries(e)) = Cardinality(Entries(s.children)) - Len(s.children[h])
        BY <1>2, <1>3, EntriesGone, ZenonT(60)
      <4> QED BY <2>1, <4>1, Zenon
    <3>2. Len(t.todo) = Len(s.todo) - 1 + Len(s.children[h]) /\ Len(s.children[h]) \in Nat
      <4> DEFINE f == Front(s.todo)
                 d == s.children[h]
      <4>1. f \in Seq(H) /\ d \in Seq(H) /\ Len(f) = Len(s.todo) - 1 /\ t.todo = f \o d
        BY <1>3, <2>1, <2>6
      <4> HIDE DEF f, d
      <4>2. Len(f \o d) = Len(f) + Len(d) /\ Len(d) \in Nat
        BY <4>1, ConcatType
      <4> QED BY <4>1, <4>2 DEF d
    <3> DEFINE x == Len(s.todo)
               y == Len(s.children[h])
               z == Cardinality(Entries(s.children))
    <3>3. x \in Nat /\ y \in Nat /\ z \in Nat
      BY <1>3, <1>7, <3>2
    <3>4. CallsLeft(t) = x - 1 + y + (z - y) /\ CallsLeft(s) = x + z
      BY <3>1, <3>2 DEF CallsLeft
    <3> HIDE DEF x, y, z
    <3> QED BY <3>3, <3>4
  <2>10. s.cache[old] = Nothing => t.cache[old] = Nothing
    BY <2>3, <2>5 DEF BookRight
  <2> QED BY <1>8, <2>5, <2>8, <2>9, <2>10 DEF t, h
<1> QED BY <1>9, <1>10, <1>11

\* The states after the calls of unref, one after another.
IsAfter(g, start, m) ==
  g = [i \in 0 .. m |-> IF i = 0 THEN start ELSE UnrefNext(g[i - 1])]

\* They are a function,
LEMMA AfterExists ==
  ASSUME NEW start, NEW m \in Nat
  PROVE  \E g : IsAfter(g, start, m)
<1> DEFINE B == {i \in Nat : ~\E g : IsAfter(g, start, i)}
<1> SUFFICES ASSUME B # {} PROVE FALSE
  OBVIOUS
<1>1. PICK k \in B : \A x \in B : k <= x
  <2>1. B \in SUBSET Nat
    OBVIOUS
  <2> HIDE DEF B
  <2> QED BY <2>1, LeastNatural
<1>2. k # 0
  <2> DEFINE g == [i \in 0 .. 0 |-> start]
  <2>1. g = [i \in 0 .. 0 |-> IF i = 0 THEN start ELSE UnrefNext(g[i - 1])]
    OBVIOUS
  <2> HIDE DEF g
  <2>2. \E f : IsAfter(f, start, 0)
    BY <2>1 DEF IsAfter
  <2> QED BY <1>1, <2>2
<1>3. k \in Nat /\ k - 1 \in Nat /\ k - 1 < k
  BY <1>1, <1>2
<1>4. PICK g : IsAfter(g, start, k - 1)
  <2>1. k - 1 \notin B
    BY <1>1, <1>3
  <2> QED BY <1>3, <2>1
<1> DEFINE f == [i \in 0 .. k |-> IF i < k THEN g[i] ELSE UnrefNext(g[k - 1])]
<1>5. \A i \in 0 .. (k - 1) : f[i] = g[i] /\ f[i] = IF i = 0 THEN start ELSE UnrefNext(g[i - 1])
  <2>1. \A i \in 0 .. (k - 1) : g[i] = IF i = 0 THEN start ELSE UnrefNext(g[i - 1])
    BY <1>4, SMT DEF IsAfter
  <2>2. \A i \in 0 .. (k - 1) : i \in 0 .. k /\ i < k
    BY <1>3
  <2> QED BY <2>1, <2>2
<1>6. f[k] = UnrefNext(g[k - 1]) /\ k - 1 \in 0 .. (k - 1) /\ k \in 0 .. k
  BY <1>3
<1>7. \A i \in 0 .. k : f[i] = IF i = 0 THEN start ELSE UnrefNext(f[i - 1])
  <2> SUFFICES ASSUME NEW i \in 0 .. k PROVE f[i] = IF i = 0 THEN start ELSE UnrefNext(f[i - 1])
    OBVIOUS
  <2> HIDE DEF f
  <2>1. CASE i = k
    BY <1>2, <1>5, <1>6, <2>1
  <2>2. CASE i # k
    <3>1. i \in 0 .. (k - 1) /\ (i # 0 => i - 1 \in 0 .. (k - 1))
      BY <1>3, <2>2
    <3> QED BY <1>5, <3>1
  <2> QED BY <2>1, <2>2
<1>8. f = [i \in 0 .. k |-> f[i]]
  OBVIOUS
<1>9. IsAfter(f, start, k)
  <2> HIDE DEF f
  <2> QED BY <1>7, <1>8 DEF IsAfter
<1> HIDE DEF f
<1> QED BY <1>1, <1>9

\* which is what it is defined to be.
LEMMA AfterOf ==
  ASSUME NEW start, NEW m \in Nat, NEW g, IsAfter(g, start, m)
  PROVE  /\ g[0] = start
         /\ \A i \in 1 .. m : g[i] = UnrefNext(g[i - 1])
<1>1. \A i \in 0 .. m : g[i] = IF i = 0 THEN start ELSE UnrefNext(g[i - 1])
  BY SMT DEF IsAfter
<1>2. 0 \in 0 .. m /\ \A i \in 1 .. m : i \in 0 .. m /\ i # 0
  OBVIOUS
<1> QED BY <1>1, <1>2

\* unref is done after as many calls as there are entries, and one.
LEMMA UnrefRight ==
  ASSUME BookRight(book), NEW old \in book.spine,
         Kept(book, blobs, cache, refCount, children, live, << >>, {}),
         NEW s, s = Unref(old)
  PROVE  /\ LoopRight(book, blobs, cache, refCount, old, s) /\ s.todo = << >>
         /\ cache[old] = Nothing \/ refCount[old] = 1 => s.cache[old] = Nothing
<1> DEFINE start == [todo |-> <<old>>, cache |-> cache, count |-> refCount,
                     children |-> children, live |-> live]
           calls == 1 + Cardinality(Entries(children))
           after == CHOOSE f : IsAfter(f, start, calls)
           H == DOMAIN book.links
<1>1. /\ old \in H /\ live \in SUBSET Nat
      /\ cache \in [H -> (1 .. Len(blobs)) \union {Nothing}] /\ refCount \in [H -> Nat]
      /\ children \in [H \union {Root} -> Seq(H)]
  <2>1. LoaderType(book, blobs, cache, refCount, children)
    BY DEF Kept
  <2>2. live = {cache[h] : h \in {k \in H : cache[k] # Nothing}}
    BY DEF Kept, UrlsRight
  <2>3. /\ old \in H
        /\ cache \in [H -> (1 .. Len(blobs)) \union {Nothing}] /\ refCount \in [H -> Nat]
        /\ children \in [H \union {Root} -> Seq(H)]
    BY <2>1 DEF LoaderType, BookRight
  <2> QED BY <2>2, <2>3
<1>2. calls \in Nat /\ calls > 0 /\ calls = 1 + Cardinality(Entries(children)) /\ Cardinality(Entries(children)) \in Nat
  <2>1. Cardinality(Entries(children)) \in Nat
    BY <1>1, EntriesGone
  <2> QED BY <2>1
<1>3. s = after[calls]
  BY DEF Unref, IsAfter
<1>4. LoopRight(book, blobs, cache, refCount, old, start)
  <2>1. start \in WorkType(book, blobs)
    <3>1. <<old>> \in Seq(H)
      <4>1. old \in H
        BY <1>1
      <4> HIDE DEF H
      <4> QED BY <4>1
    <3> QED BY <1>1, <3>1, Zenon DEF WorkType
  <2>2. start.todo = <<old>> /\ start.cache = cache /\ start.count = refCount
        /\ start.children = children /\ start.live = live
    OBVIOUS
  <2>3. \A k \in H \ book.spine : Places(<<old>>, k) = Places(<< >>, k)
    BY DEF Places
  <2>4. CountsRight(book, cache, refCount, children, <<old>>)
    BY <2>3 DEF Kept, CountsRight
  <2>5. Kept(book, blobs, cache, refCount, children, live, <<old>>, {})
    BY <2>4 DEF Kept
  <2>6. \A i \in DOMAIN <<old>> : <<old>>[i] = old
    OBVIOUS
  <2> HIDE DEF start
  <2> QED BY <2>1, <2>2, <2>5, <2>6 DEF LoopRight
<1>5. Last(start.todo) = old /\ start.todo # << >> /\ start.cache = cache /\ start.count = refCount
      /\ CallsLeft(start) = calls
  BY <1>1 DEF Last, CallsLeft
<1> HIDE DEF start, calls
<1>6. after[0] = start /\ \A i \in 1 .. calls : after[i] = UnrefNext(after[i - 1])
  <2>1. IsAfter(after, start, calls)
    BY <1>2, AfterExists, Zenon
  <2> HIDE DEF after
  <2>2. calls \in Nat
    BY <1>2
  <2> QED BY <2>1, <2>2, AfterOf
<1> HIDE DEF after
<1> DEFINE Gone(t) == cache[old] = Nothing \/ refCount[old] = 1 => t.cache[old] = Nothing
           Good(i) == /\ LoopRight(book, blobs, cache, refCount, old, after[i])
                      /\ i > 0 => Gone(after[i])
                      /\ after[i].todo = << >> \/ CallsLeft(after[i]) = calls - i
<1>7. Good(0)
  BY <1>2, <1>4, <1>5, <1>6
<1>8. ASSUME NEW i \in 0 .. (calls - 1), Good(i) PROVE Good(i + 1)
  <2> DEFINE t == after[i]
             u == after[i + 1]
  <2>1. u = UnrefNext(t) /\ i + 1 > 0 /\ i \in Nat
    <3>1. i + 1 \in 1 .. calls /\ i + 1 - 1 = i
      BY <1>2
    <3> QED BY <1>6, <3>1
  <2>2. /\ LoopRight(book, blobs, cache, refCount, old, t)
        /\ t.todo = << >> \/ CallsLeft(t) = calls - i
        /\ i > 0 => Gone(t)
        /\ i = 0 => t = start
    BY <1>6, <1>8
  <2> HIDE DEF t, u
  <2>3. CASE t.todo = << >>
    <3>1. u = t /\ i # 0
      BY <1>5, <2>1, <2>2, <2>3 DEF UnrefNext
    <3> QED BY <2>1, <2>2, <2>3, <3>1 DEF u
  <2>4. CASE t.todo # << >>
    <3>1. u = UnrefOne(t)
      BY <2>1, <2>4 DEF UnrefNext
    <3>2. /\ LoopRight(book, blobs, cache, refCount, old, u)
          /\ CallsLeft(t) \in Nat /\ CallsLeft(u) = CallsLeft(t) - 1
          /\ t.cache[old] = Nothing => u.cache[old] = Nothing
          /\ Last(t.todo) = old /\ t.count[old] = 1 => u.cache[old] = Nothing
      BY <2>2, <2>4, <3>1, LoopStep, ZenonT(60)
    <3>3. Gone(u)
      BY <1>5, <2>1, <2>2, <3>2
    <3>4. CallsLeft(u) = calls - (i + 1)
      <4> DEFINE x == CallsLeft(t)
                 y == CallsLeft(u)
      <4>1. x = calls - i /\ y = x - 1 /\ i \in Nat /\ calls \in Nat
        BY <1>2, <2>1, <2>2, <2>4, <3>2
      <4> HIDE DEF x, y
      <4>2. y = calls - (i + 1)
        BY <4>1
      <4> QED BY <4>2 DEF y
    <3> QED BY <3>2, <3>3, <3>4 DEF u
  <2> QED BY <2>3, <2>4
<1> HIDE DEF Good
<1>9. Good(calls)
  <2> DEFINE B == {i \in 0 .. calls : ~Good(i)}
  <2> SUFFICES ASSUME B # {} PROVE FALSE
    BY <1>2
  <2>1. PICK k \in B : \A x \in B : k <= x
    <3>1. B \in SUBSET Nat
      OBVIOUS
    <3> HIDE DEF B
    <3> QED BY <3>1, LeastNatural
  <2>2. k # 0 /\ k \in 0 .. calls /\ ~Good(k)
    BY <1>7, <2>1
  <2> DEFINE j == k - 1
  <2>3. j \in 0 .. (calls - 1) /\ j + 1 = k /\ j \in 0 .. calls /\ j < k
    BY <1>2, <2>2
  <2> HIDE DEF j
  <2>4. Good(j)
    BY <2>1, <2>3
  <2> QED BY <1>8, <2>2, <2>3, <2>4
<1>10. /\ LoopRight(book, blobs, cache, refCount, old, s) /\ Gone(s)
       /\ s.todo = << >> \/ CallsLeft(s) = 0
  BY <1>2, <1>3, <1>9 DEF Good
<1>11. s.todo = << >>
  <2>1. s \in WorkType(book, blobs)
    BY <1>10, Zenon DEF LoopRight
  <2>2. s.todo \in Seq(H) /\ s.children \in [H \union {Root} -> Seq(H)]
    BY <2>1 DEF WorkType
  <2>3. Cardinality(Entries(s.children)) \in Nat /\ Len(s.todo) \in Nat
    <3>1. old \in DOMAIN book.links
          /\ s.children \in [DOMAIN book.links \union {Root} -> Seq(DOMAIN book.links)]
      BY <1>1, <2>2
    <3>2. Cardinality(Entries(s.children)) \in Nat
      BY <3>1, EntriesGone
    <3> QED BY <2>2, <3>2
  <2>4. Len(s.todo) = 0 \/ s.todo = << >>
    BY <1>10, <2>3 DEF CallsLeft
  <2> QED BY <2>2, <2>4
<1> QED BY <1>10, <1>11

\* The parts of Kept.
LEMMA KeptFacts ==
  ASSUME NEW b, NEW bl, NEW c, NEW n, NEW lists, NEW lv, NEW todo, NEW busy,
         Kept(b, bl, c, n, lists, lv, todo, busy)
  PROVE  /\ bl \in Seq(SUBSET Nat)
         /\ c \in [DOMAIN b.links -> (1 .. Len(bl)) \union {Nothing}]
         /\ n \in [DOMAIN b.links -> Nat]
         /\ lists \in [DOMAIN b.links \union {Root} -> Seq(DOMAIN b.links)]
         /\ Layered(bl) /\ UrlsRight(b, bl, c, lists, lv)
         /\ ListsRight(b, c, lists, busy) /\ CountsRight(b, c, n, lists, todo)
BY DEF Kept, LoaderType

\* The lists of children are sequences of files.
LEMMA ListSets ==
  ASSUME NEW b, NEW lists \in [DOMAIN b.links \union {Root} -> Seq(DOMAIN b.links)]
  PROVE  \A p \in DOMAIN b.links \union {Root} :
           lists[p] \in Seq(DOMAIN b.links) /\ ToSet(lists[p]) \subseteq DOMAIN b.links
BY DEF ToSet

\* Appending a new entry to the list of a file that is being rewritten.
LEMMA ListsMore ==
  ASSUME NEW b, BookRight(b), NEW c, NEW lists \in [DOMAIN b.links \union {Root} -> Seq(DOMAIN b.links)],
         NEW c2, NEW busy, NEW busy2,
         ListsRight(b, c, lists, busy), NEW p \in DOMAIN b.links, NEW h \in ToSet(b.links[p]),
         h \notin ToSet(lists[p]), p \in busy2, c2[h] # Nothing,
         \A k \in DOMAIN b.links : c[k] # Nothing => c2[k] # Nothing,
         \A k \in busy : k \in busy2 \/ c2[k] # Nothing
  PROVE  ListsRight(b, c2, Appended(lists, p, h), busy2)
<1> DEFINE more == Appended(lists, p, h)
           H == DOMAIN b.links
<1>1. h \in H
  BY DEF BookRight, ToSet
<1>2. /\ lists[p] \in Seq(H) /\ \A q \in H : ToSet(lists[q]) \subseteq H
      /\ more[p] = Append(lists[p], h) /\ \A q \in H : q # p => more[q] = lists[q]
  BY ListSets DEF Appended
<1>3. ToSet(more[p]) = ToSet(lists[p]) \union {h} /\ more[p] # << >>
  <2>1. lists[p] \in Seq(H) /\ more[p] = Append(lists[p], h)
    BY <1>2
  <2> HIDE DEF more
  <2>2. ToSet(Append(lists[p], h)) = ToSet(lists[p]) \union {h} /\ Append(lists[p], h) # << >>
    <3> HIDE DEF H
    <3> QED BY <1>1, <2>1, AppendSet
  <2> QED BY <2>1, <2>2
<1> HIDE DEF more
<1>4. /\ \A q \in H : ToSet(lists[q]) \subseteq ToSet(b.links[q])
      /\ \A q \in H : \A i, j \in DOMAIN lists[q] : lists[q][i] = lists[q][j] => i = j
      /\ \A q \in H : \A k \in ToSet(lists[q]) : c[k] # Nothing
      /\ \A q \in H : ~failed /\ lists[q] # << >> => c[q] # Nothing \/ q \in busy
  BY DEF ListsRight
<1>5. \A q \in H : ToSet(more[q]) \subseteq ToSet(b.links[q])
  BY <1>2, <1>3, <1>4, ZenonT(60)
<1>6. \A q \in H : \A k \in ToSet(more[q]) : c2[k] # Nothing
  BY <1>2, <1>3, <1>4
<1>7. \A q \in H : ~failed /\ more[q] # << >> => c2[q] # Nothing \/ q \in busy2
  BY <1>2, <1>4
<1>8. \A i, j \in DOMAIN more[p] : more[p][i] = more[p][j] => i = j
  <2> DEFINE s == lists[p]
             m == Len(s)
  <2>1. /\ DOMAIN more[p] = 1 .. m + 1 /\ m \in Nat /\ more[p][m + 1] = h
        /\ \A i \in 1 .. m : more[p][i] = s[i] /\ s[i] \in ToSet(s)
    <3>1. s \in Seq(H) /\ more[p] = Append(s, h)
      BY <1>2
    <3> HIDE DEF s
    <3> QED BY <3>1, <1>1 DEF ToSet
  <2>2. \A i, j \in 1 .. m : s[i] = s[j] => i = j
    <3>1. DOMAIN s = 1 .. m
      BY <1>2
    <3> QED BY <1>4, <3>1
  <2>3. \A i \in 1 .. m : more[p][i] # h
    BY <2>1
  <2> HIDE DEF s, m
  <2>4. \A i \in 1 .. m + 1 : i \in 1 .. m \/ i = m + 1
    BY <2>1
  <2> QED BY <2>1, <2>2, <2>3, <2>4
<1>9. \A q \in H : \A i, j \in DOMAIN more[q] : more[q][i] = more[q][j] => i = j
  BY <1>2, <1>4, <1>8
<1>10. ListsRight(b, c2, more, busy2)
  BY <1>5, <1>6, <1>7, <1>9 DEF ListsRight
<1> QED BY <1>10 DEF more

\* ref: one more file has the file.
LEMMA KeptRef ==
  ASSUME NEW b, BookRight(b), NEW bl, NEW c, NEW n, NEW lists, NEW lv, NEW busy,
         Kept(b, bl, c, n, lists, lv, << >>, busy),
         NEW p \in DOMAIN b.links, NEW h \in ToSet(b.links[p]), c[h] # Nothing,
         h \notin ToSet(lists[p]), p \in busy, c[p] = Nothing
  PROVE  Kept(b, bl, c, [n EXCEPT ![h] = @ + 1], Appended(lists, p, h), lv, << >>, busy)
<1> DEFINE more == Appended(lists, p, h)
           m == [n EXCEPT ![h] = @ + 1]
           H == DOMAIN b.links
<1>1. h \in H /\ h \notin b.spine
  BY DEF BookRight, ToSet
<1>2. /\ bl \in Seq(SUBSET Nat) /\ c \in [H -> (1 .. Len(bl)) \union {Nothing}] /\ n \in [H -> Nat]
      /\ lists \in [H \union {Root} -> Seq(H)]
      /\ Layered(bl) /\ UrlsRight(b, bl, c, lists, lv)
      /\ ListsRight(b, c, lists, busy) /\ CountsRight(b, c, n, lists, << >>)
  BY KeptFacts, Zenon
<1>3. lists[p] \in Seq(H) /\ Append(lists[p], h) \in Seq(H)
  BY <1>1, <1>2, AppendSet
<1>4. /\ more \in [H \union {Root} -> Seq(H)]
      /\ \A q \in H : q # p => more[q] = lists[q]
  BY <1>2, <1>3 DEF Appended
<1>5. m \in [H -> Nat] /\ m[h] = n[h] + 1 /\ n[h] \in Nat /\ \A q \in H : q # h => m[q] = n[q]
  BY <1>1, <1>2
<1>6. ListsRight(b, c, more, busy)
  BY <1>2, ListsMore
<1>7. UrlsRight(b, bl, c, more, lv)
  BY <1>2, <1>4 DEF UrlsRight
<1>8. CountsRight(b, c, m, more, << >>)
  <2> SUFFICES ASSUME NEW k \in H \ b.spine
      PROVE /\ c[k] # Nothing => m[k] > 0 /\ m[k] = Cardinality(Holders(b, more, k)) + Cardinality(Places(<< >>, k))
            /\ c[k] = Nothing => Holders(b, more, k) = {} /\ Places(<< >>, k) = {}
    BY Zenon DEF CountsRight
  <2>1. /\ c[k] # Nothing => n[k] > 0 /\ n[k] = Cardinality(Holders(b, lists, k)) + Cardinality(Places(<< >>, k))
        /\ c[k] = Nothing => Holders(b, lists, k) = {} /\ Places(<< >>, k) = {}
    BY <1>2 DEF CountsRight
  <2>2. /\ k = h => Cardinality(Holders(b, more, k)) = Cardinality(Holders(b, lists, k)) + 1
        /\ k # h => Holders(b, more, k) = Holders(b, lists, k)
    <3>1. h \in DOMAIN b.links /\ lists \in ListsType(b)
      BY <1>1, <1>2 DEF ListsType
    <3> HIDE DEF more, m, H
    <3>3. /\ Cardinality(Holders(b, more, h)) = Cardinality(Holders(b, lists, h)) + 1
          /\ \A q : q # h => Holders(b, more, q) = Holders(b, lists, q)
      BY <3>1, HoldersMore DEF more
    <3> QED BY <3>3
  <2>3. Cardinality(Holders(b, lists, k)) \in Nat /\ Cardinality(Places(<< >>, k)) \in Nat
    <3>1. << >> \in Seq(H)
      BY EmptySeqSet
    <3> QED BY <3>1, HoldersFinite, PlacesFinite
  <2> HIDE DEF m, more
  <2>4. CASE k = h
    <3>1. n[h] = Cardinality(Holders(b, lists, k)) + Cardinality(Places(<< >>, k))
      BY <2>1, <2>4
    <3> QED BY <1>5, <2>2, <2>3, <2>4, <3>1
  <2>5. CASE k # h
    BY <1>5, <2>1, <2>2, <2>5
  <2> QED BY <2>4, <2>5
<1> HIDE DEF m, more
<1>9. Kept(b, bl, c, m, more, lv, << >>, busy)
  BY <1>2, <1>4, <1>5, <1>6, <1>7, <1>8 DEF Kept, LoaderType
<1> QED BY <1>9 DEF m, more

\* A section's own list.
LEMMA KeptRoot ==
  ASSUME NEW b, BookRight(b), NEW bl, NEW c, NEW n, NEW lists, NEW lv, NEW busy,
         Kept(b, bl, c, n, lists, lv, << >>, busy), NEW h \in b.spine
  PROVE  Kept(b, bl, c, [n EXCEPT ![h] = @ + 1], Appended(lists, Root, h), lv, << >>, busy)
<1> DEFINE more == Appended(lists, Root, h)
           m == [n EXCEPT ![h] = @ + 1]
           H == DOMAIN b.links
<1>1. h \in H /\ Root \notin H
  BY DEF BookRight
<1>2. /\ bl \in Seq(SUBSET Nat) /\ c \in [H -> (1 .. Len(bl)) \union {Nothing}] /\ n \in [H -> Nat]
      /\ lists \in [H \union {Root} -> Seq(H)]
      /\ Layered(bl) /\ UrlsRight(b, bl, c, lists, lv)
      /\ ListsRight(b, c, lists, busy) /\ CountsRight(b, c, n, lists, << >>)
  BY KeptFacts, Zenon
<1>3. lists[Root] \in Seq(H) /\ Append(lists[Root], h) \in Seq(H)
  BY <1>1, <1>2, AppendSet
<1>4. /\ more \in [H \union {Root} -> Seq(H)]
      /\ \A q \in H : more[q] = lists[q]
  BY <1>1, <1>2, <1>3 DEF Appended
<1>5. m \in [H -> Nat] /\ \A q \in H : q # h => m[q] = n[q]
  BY <1>1, <1>2
<1> HIDE DEF m, more
<1>6. ListsRight(b, c, more, busy)
  BY <1>2, <1>4 DEF ListsRight
<1>7. UrlsRight(b, bl, c, more, lv)
  BY <1>2, <1>4 DEF UrlsRight
<1>8. \A k : Holders(b, more, k) = Holders(b, lists, k)
  BY <1>4 DEF Holders
<1>9. CountsRight(b, c, m, more, << >>)
  BY <1>2, <1>5, <1>8 DEF CountsRight
<1>10. Kept(b, bl, c, m, more, lv, << >>, busy)
  BY <1>2, <1>4, <1>5, <1>6, <1>7, <1>9 DEF Kept, LoaderType
<1> QED BY <1>10 DEF m, more

\* createURL: a file gets a URL, and one file that has it.
LEMMA UrlsMore ==
  ASSUME NEW b, NEW bl \in Seq(SUBSET Nat), NEW c \in [DOMAIN b.links -> (1 .. Len(bl)) \union {Nothing}],
         NEW lists \in [DOMAIN b.links \union {Root} -> Seq(DOMAIN b.links)], NEW lv,
         BookRight(b), Layered(bl), UrlsRight(b, bl, c, lists, lv),
         NEW h \in DOMAIN b.links, c[h] = Nothing,
         NEW lists2, \A q \in DOMAIN b.links : c[q] # Nothing \/ q = h => lists2[q] = lists[q],
         \A q \in DOMAIN b.links : \A k \in ToSet(lists[q]) : c[k] # Nothing,
         NEW urls, Agrees(urls, UrlsOf(c, lists[h]))
  PROVE  LET c2 == [c EXCEPT ![h] = Len(bl) + 1]
             bl2 == Append(bl, urls)
         IN /\ bl2 \in Seq(SUBSET Nat)
            /\ c2 \in [DOMAIN b.links -> (1 .. Len(bl2)) \union {Nothing}]
            /\ Layered(bl2) /\ UrlsRight(b, bl2, c2, lists2, lv \union {Len(bl) + 1})
<1> DEFINE H == DOMAIN b.links
           m == Len(bl)
           c2 == [c EXCEPT ![h] = m + 1]
           bl2 == Append(bl, urls)
<1>1. Nothing \notin Nat /\ m \in Nat
  BY DEF BookRight
<1>2. urls \subseteq 1 .. m
  <2>1. ToSet(lists[h]) \subseteq H
    BY ListSets
  <2>2. \A k \in ToSet(lists[h]) : c[k] \in 1 .. m
    BY <2>1
  <2> QED BY <2>2 DEF UrlsOf, Agrees
<1>3. /\ bl2 \in Seq(SUBSET Nat) /\ Len(bl2) = m + 1 /\ bl2[m + 1] = urls
      /\ \A u \in 1 .. m : bl2[u] = bl[u]
  <2>1. urls \in SUBSET Nat
    BY <1>1, <1>2
  <2> QED BY <2>1
<1>4. /\ c2[h] = m + 1 /\ \A q \in H : q # h => c2[q] = c[q]
      /\ c2 \in [H -> (1 .. m + 1) \union {Nothing}]
  <2>1. m + 1 \in 1 .. m + 1 /\ 1 .. m \subseteq 1 .. m + 1
    BY <1>1
  <2>2. c \in [H -> (1 .. m) \union {Nothing}]
    OBVIOUS
  <2> HIDE DEF m
  <2> QED BY <2>1, <2>2
<1>5. Layered(bl2)
  <2>1. \A u \in 1 .. m : bl[u] \subseteq 1 .. (u - 1)
    BY DEF Layered
  <2>2. DOMAIN bl2 = 1 .. m + 1 /\ urls \subseteq 1 .. (m + 1 - 1)
    BY <1>1, <1>2, <1>3
  <2>3. \A u \in 1 .. m + 1 : u \in 1 .. m \/ u = m + 1
    BY <1>1
  <2> HIDE DEF m, bl2
  <2>4. \A u \in 1 .. m + 1 : bl2[u] \subseteq 1 .. (u - 1)
    <3>1. \A u \in 1 .. m : bl2[u] \subseteq 1 .. (u - 1)
      BY <1>3, <2>1
    <3>2. bl2[m + 1] \subseteq 1 .. m
      BY <1>2, <1>3
    <3> SUFFICES ASSUME NEW u \in 1 .. m + 1 PROVE bl2[u] \subseteq 1 .. (u - 1)
      OBVIOUS
    <3>3. CASE u \in 1 .. m
      BY <3>1, <3>3
    <3>4. CASE u = m + 1
      <4>1. u - 1 = m
        BY <1>1, <3>4
      <4> QED BY <3>2, <3>4, <4>1
    <3> QED BY <2>3, <3>3, <3>4
  <2> QED BY <2>2, <2>4 DEF Layered
<1>6. /\ lv = {c[k] : k \in {q \in H : c[q] # Nothing}}
      /\ \A k, q \in H : c[k] # Nothing /\ c[k] = c[q] => k = q
      /\ \A k \in H : c[k] # Nothing => Agrees(bl[c[k]], UrlsOf(c, lists[k]))
  BY DEF UrlsRight
<1>7. \A q \in H : c[q] # Nothing => c[q] \in 1 .. m /\ c[q] # m + 1
  BY <1>1
<1>8. m + 1 # Nothing
  BY <1>1
<1> HIDE DEF c2, bl2, m
<1>9. lv \union {m + 1} = {c2[k] : k \in {q \in H : c2[q] # Nothing}}
  <2>1. ASSUME NEW u \in lv PROVE \E k \in H : c2[k] # Nothing /\ u = c2[k]
    <3>1. PICK k \in H : c[k] # Nothing /\ u = c[k]
      BY <1>6, <2>1
    <3>2. k # h
      BY <3>1
    <3> QED BY <1>4, <3>1, <3>2
  <2>2. c2[h] # Nothing /\ m + 1 = c2[h]
    BY <1>4, <1>8
  <2>3. ASSUME NEW k \in H, c2[k] # Nothing PROVE c2[k] \in lv \union {m + 1}
    BY <1>4, <1>6, <2>3
  <2> QED BY <2>1, <2>2, <2>3
<1>10. \A k, q \in H : c2[k] # Nothing /\ c2[k] = c2[q] => k = q
  BY <1>4, <1>6, <1>7
<1>11. ASSUME NEW k \in H, c2[k] # Nothing PROVE Agrees(bl2[c2[k]], UrlsOf(c2, lists2[k]))
  <2>1. lists2[k] = lists[k] /\ ToSet(lists[k]) \subseteq H
    BY <1>4, <1>11, ListSets
  <2>2. UrlsOf(c2, lists[k]) = UrlsOf(c, lists[k])
    <3>1. \A q \in ToSet(lists[k]) : c2[q] = c[q]
      BY <1>4, <2>1
    <3> QED BY <3>1, ZenonT(60) DEF UrlsOf
  <2>3. CASE k = h
    BY <1>3, <1>4, <2>1, <2>2, <2>3
  <2>4. CASE k # h
    <3>1. c2[k] = c[k] /\ c[k] \in 1 .. m /\ Agrees(bl[c[k]], UrlsOf(c, lists[k]))
      BY <1>4, <1>6, <1>7, <1>11, <2>4
    <3> QED BY <1>3, <2>1, <2>2, <3>1
  <2> QED BY <2>3, <2>4
<1>12. UrlsRight(b, bl2, c2, lists2, lv \union {m + 1})
  BY <1>9, <1>10, <1>11 DEF UrlsRight
<1> QED BY <1>3, <1>4, <1>5, <1>12 DEF c2, bl2, m

\* A file that is read gets a URL and becomes a child of the file that waits for it (createURL),
LEMMA KeptCreate ==
  ASSUME NEW b, BookRight(b), NEW bl, NEW c, NEW n, NEW lists, NEW lv, NEW busy, NEW busy2,
         Kept(b, bl, c, n, lists, lv, << >>, busy), NEW h, NEW p \in DOMAIN b.links,
         h \in ToSet(b.links[p]), c[h] = Nothing, c[p] = Nothing, p # h, p \in busy2,
         busy \subseteq busy2 \union {h}, NEW urls, Agrees(urls, UrlsOf(c, lists[h]))
  PROVE  Kept(b, Append(bl, urls), [c EXCEPT ![h] = Len(bl) + 1], [n EXCEPT ![h] = 1],
              Appended(lists, p, h), lv \union {Len(bl) + 1}, << >>, busy2)
<1> DEFINE H == DOMAIN b.links
           c2 == [c EXCEPT ![h] = Len(bl) + 1]
           n2 == [n EXCEPT ![h] = 1]
           more == Appended(lists, p, h)
           bl2 == Append(bl, urls)
           lv2 == lv \union {Len(bl) + 1}
<1>1. h \in H /\ h \notin b.spine
  BY DEF BookRight, ToSet
<1>2. /\ bl \in Seq(SUBSET Nat) /\ c \in [H -> (1 .. Len(bl)) \union {Nothing}] /\ n \in [H -> Nat]
      /\ lists \in [H \union {Root} -> Seq(H)]
      /\ Layered(bl) /\ UrlsRight(b, bl, c, lists, lv)
      /\ ListsRight(b, c, lists, busy) /\ CountsRight(b, c, n, lists, << >>)
  BY KeptFacts, Zenon
<1>3. lists[p] \in Seq(H) /\ Append(lists[p], h) \in Seq(H)
  BY <1>1, <1>2, AppendSet
<1>4. /\ more \in [H \union {Root} -> Seq(H)]
      /\ \A q \in H : q # p => more[q] = lists[q]
  BY <1>2, <1>3 DEF Appended
<1>5. n2 \in [H -> Nat] /\ n2[h] = 1 /\ \A q \in H : q # h => n2[q] = n[q]
  BY <1>1, <1>2
<1>6. \A q \in H : \A k \in ToSet(lists[q]) : c[k] # Nothing
  BY <1>2 DEF ListsRight
<1>7. \A q \in H : c[q] # Nothing \/ q = h => more[q] = lists[q]
  BY <1>4
<1> HIDE DEF more, n2
<1>8. /\ bl2 \in Seq(SUBSET Nat) /\ c2 \in [H -> (1 .. Len(bl2)) \union {Nothing}]
      /\ Layered(bl2) /\ UrlsRight(b, bl2, c2, more, lv2)
  BY <1>1, <1>2, <1>6, <1>7, UrlsMore
<1>9. c2[h] # Nothing /\ \A k \in H : k # h => c2[k] = c[k]
  <2>1. Len(bl) + 1 # Nothing
    BY <1>2 DEF BookRight
  <2> QED BY <1>1, <1>2, <2>1
<1> HIDE DEF c2, bl2, lv2
<1>10. h \notin ToSet(lists[p])
  BY <1>6
<1>11. ListsRight(b, c2, more, busy2)
  <2>1. \A k \in H : c[k] # Nothing => c2[k] # Nothing
    BY <1>9
  <2>2. \A k \in busy : k \in busy2 \/ c2[k] # Nothing
    BY <1>9
  <2> QED BY <1>2, <1>9, <1>10, <2>1, <2>2, ListsMore DEF more
<1>12. CountsRight(b, c2, n2, more, << >>)
  <2> SUFFICES ASSUME NEW k \in H \ b.spine
      PROVE /\ c2[k] # Nothing => n2[k] > 0 /\ n2[k] = Cardinality(Holders(b, more, k)) + Cardinality(Places(<< >>, k))
            /\ c2[k] = Nothing => Holders(b, more, k) = {} /\ Places(<< >>, k) = {}
    BY Zenon DEF CountsRight
  <2>1. /\ c[k] # Nothing => n[k] > 0 /\ n[k] = Cardinality(Holders(b, lists, k)) + Cardinality(Places(<< >>, k))
        /\ c[k] = Nothing => Holders(b, lists, k) = {} /\ Places(<< >>, k) = {}
    BY <1>2 DEF CountsRight
  <2>2. /\ Cardinality(Holders(b, more, h)) = Cardinality(Holders(b, lists, h)) + 1
        /\ \A q : q # h => Holders(b, more, q) = Holders(b, lists, q)
    <3>1. h \in DOMAIN b.links
      BY <1>1
    <3>0. lists \in ListsType(b)
      BY <1>2 DEF ListsType
    <3> HIDE DEF H
    <3>2. /\ Cardinality(Holders(b, Appended(lists, p, h), h)) = Cardinality(Holders(b, lists, h)) + 1
          /\ \A q : q # h => Holders(b, Appended(lists, p, h), q) = Holders(b, lists, q)
      BY <1>10, <3>0, <3>1, HoldersMore
    <3> QED BY <3>2 DEF more
  <2>3. CASE k = h
    <3>1. Cardinality(Holders(b, lists, k)) = 0 /\ Cardinality(Places(<< >>, k)) = 0
      BY <2>1, <2>3, FS_EmptySet
    <3> QED BY <1>5, <1>9, <2>2, <2>3, <3>1
  <2>4. CASE k # h
    BY <1>5, <1>9, <2>1, <2>2, <2>4
  <2> QED BY <2>3, <2>4
<1>13. LoaderType(b, bl2, c2, n2, more)
  BY <1>4, <1>5, <1>8 DEF LoaderType
<1>14. Kept(b, bl2, c2, n2, more, lv2, << >>, busy2)
  BY <1>8, <1>11, <1>12, <1>13 DEF Kept
<1> QED BY <1>14 DEF c2, n2, more, bl2, lv2

\* A section gets a URL.
LEMMA KeptCreateRoot ==
  ASSUME NEW b, BookRight(b), NEW bl, NEW c, NEW n, NEW lists, NEW lv, NEW busy, NEW busy2,
         Kept(b, bl, c, n, lists, lv, << >>, busy), NEW h \in b.spine, c[h] = Nothing,
         busy \subseteq busy2 \union {h}, NEW urls, Agrees(urls, UrlsOf(c, lists[h]))
  PROVE  Kept(b, Append(bl, urls), [c EXCEPT ![h] = Len(bl) + 1], [n EXCEPT ![h] = 1],
              lists, lv \union {Len(bl) + 1}, << >>, busy2)
<1> DEFINE H == DOMAIN b.links
           c2 == [c EXCEPT ![h] = Len(bl) + 1]
           n2 == [n EXCEPT ![h] = 1]
           bl2 == Append(bl, urls)
           lv2 == lv \union {Len(bl) + 1}
<1>1. h \in H
  BY DEF BookRight
<1>2. /\ bl \in Seq(SUBSET Nat) /\ c \in [H -> (1 .. Len(bl)) \union {Nothing}] /\ n \in [H -> Nat]
      /\ lists \in [H \union {Root} -> Seq(H)]
      /\ Layered(bl) /\ UrlsRight(b, bl, c, lists, lv)
      /\ ListsRight(b, c, lists, busy) /\ CountsRight(b, c, n, lists, << >>)
  BY KeptFacts, Zenon
<1>5. n2 \in [H -> Nat] /\ \A q \in H : q # h => n2[q] = n[q]
  BY <1>1, <1>2
<1>6. \A q \in H : \A k \in ToSet(lists[q]) : c[k] # Nothing
  BY <1>2 DEF ListsRight
<1> HIDE DEF n2
<1>8. /\ bl2 \in Seq(SUBSET Nat) /\ c2 \in [H -> (1 .. Len(bl2)) \union {Nothing}]
      /\ Layered(bl2) /\ UrlsRight(b, bl2, c2, lists, lv2)
  BY <1>1, <1>2, <1>6, UrlsMore
<1>9. c2[h] # Nothing /\ \A k \in H : k # h => c2[k] = c[k]
  <2>1. Len(bl) + 1 # Nothing
    BY <1>2 DEF BookRight
  <2> QED BY <1>1, <1>2, <2>1
<1> HIDE DEF c2, bl2, lv2
<1>11. ListsRight(b, c2, lists, busy2)
  <2>1. \A q \in H : ToSet(lists[q]) \subseteq H
    BY <1>2, ListSets
  <2>2. /\ \A q \in H : ToSet(lists[q]) \subseteq ToSet(b.links[q])
        /\ \A q \in H : \A i, j \in DOMAIN lists[q] : lists[q][i] = lists[q][j] => i = j
        /\ \A q \in H : ~failed /\ lists[q] # << >> => c[q] # Nothing \/ q \in busy
    BY <1>2 DEF ListsRight
  <2>3. \A q \in H : \A k \in ToSet(lists[q]) : c2[k] # Nothing
    BY <1>6, <1>9, <2>1
  <2>4. \A q \in H : ~failed /\ lists[q] # << >> => c2[q] # Nothing \/ q \in busy2
    BY <1>9, <2>2
  <2> QED BY <2>2, <2>3, <2>4 DEF ListsRight
<1>12. CountsRight(b, c2, n2, lists, << >>)
  BY <1>2, <1>5, <1>9 DEF CountsRight
<1>13. LoaderType(b, bl2, c2, n2, lists)
  BY <1>2, <1>5, <1>8 DEF LoaderType
<1>14. Kept(b, bl2, c2, n2, lists, lv2, << >>, busy2)
  BY <1>8, <1>11, <1>12, <1>13 DEF Kept
<1> QED BY <1>14 DEF c2, n2, bl2, lv2

\* A sequence without its first item,
LEMMA TailFacts ==
  ASSUME NEW S, NEW s \in Seq(S), s # << >>
  PROVE  /\ Tail(s) \in Seq(S) /\ Head(s) = s[1] /\ s[1] \in S
         /\ Len(s) \in Nat \ {0} /\ Len(Tail(s)) = Len(s) - 1
         /\ \A i \in 1 .. Len(s) - 1 : Tail(s)[i] = s[i + 1]
OBVIOUS

\* with another one in its place,
LEMMA ConsTail ==
  ASSUME NEW S, NEW s \in Seq(S), s # << >>, NEW x \in S
  PROVE  /\ <<x>> \o Tail(s) \in Seq(S) /\ Len(<<x>> \o Tail(s)) = Len(s)
         /\ (<<x>> \o Tail(s))[1] = x
         /\ \A i \in 2 .. Len(s) : (<<x>> \o Tail(s))[i] = s[i]
<1> DEFINE t == Tail(s)
<1>1. /\ t \in Seq(S) /\ Len(s) \in Nat \ {0} /\ Len(t) = Len(s) - 1
      /\ \A i \in 1 .. Len(s) - 1 : t[i] = s[i + 1]
  BY TailFacts
<1>2. <<x>> \in Seq(S) /\ Len(<<x>>) = 1 /\ <<x>>[1] = x
  OBVIOUS
<1> HIDE DEF t
<1>3. /\ <<x>> \o t \in Seq(S) /\ Len(<<x>> \o t) = 1 + Len(t)
      /\ (<<x>> \o t)[1] = x
      /\ \A i \in 2 .. 1 + Len(t) : (<<x>> \o t)[i] = t[i - 1]
  BY <1>1, <1>2
<1>4. \A i \in 2 .. Len(s) : i - 1 \in 1 .. Len(s) - 1 /\ i - 1 + 1 = i /\ i \in 2 .. 1 + Len(t)
  BY <1>1
<1>5. \A i \in 2 .. Len(s) : (<<x>> \o t)[i] = s[i]
  BY <1>1, <1>3, <1>4
<1> QED BY <1>1, <1>3, <1>5 DEF t

\* and with two.
LEMMA PushTail ==
  ASSUME NEW S, NEW s \in Seq(S), s # << >>, NEW x \in S, NEW y \in S
  PROVE  /\ <<y, x>> \o Tail(s) \in Seq(S) /\ Len(<<y, x>> \o Tail(s)) = Len(s) + 1
         /\ (<<y, x>> \o Tail(s))[1] = y /\ (<<y, x>> \o Tail(s))[2] = x
         /\ \A i \in 2 .. Len(s) : (<<y, x>> \o Tail(s))[i + 1] = s[i]
<1> DEFINE t == Tail(s)
<1>1. /\ t \in Seq(S) /\ Len(s) \in Nat \ {0} /\ Len(t) = Len(s) - 1
      /\ \A i \in 1 .. Len(s) - 1 : t[i] = s[i + 1]
  BY TailFacts
<1>2. <<y, x>> \in Seq(S) /\ Len(<<y, x>>) = 2 /\ <<y, x>>[1] = y /\ <<y, x>>[2] = x
  OBVIOUS
<1> HIDE DEF t
<1>3. /\ <<y, x>> \o t \in Seq(S) /\ Len(<<y, x>> \o t) = 2 + Len(t)
      /\ (<<y, x>> \o t)[1] = y /\ (<<y, x>> \o t)[2] = x
      /\ \A i \in 3 .. 2 + Len(t) : (<<y, x>> \o t)[i] = t[i - 2]
  BY <1>1, <1>2
<1>4. \A i \in 2 .. Len(s) : i - 1 \in 1 .. Len(s) - 1 /\ i - 1 + 1 = i /\ i + 1 \in 3 .. 2 + Len(t) /\ i + 1 - 2 = i - 1
  BY <1>1
<1>5. \A i \in 2 .. Len(s) : (<<y, x>> \o t)[i + 1] = s[i]
  BY <1>1, <1>3, <1>4
<1> QED BY <1>1, <1>3, <1>5 DEF t

\* A chain of files, each referred to by the next one, has no file twice.
Chain(b, f, n) ==
  /\ n \in Nat /\ f \in [1 .. n -> DOMAIN b.links]
  /\ \A k \in 1 .. n : k # n => f[k] \in ToSet(b.links[f[k + 1]])

\* It would be a circle.
LEMMA NoCircle ==
  ASSUME NEW b, BookRight(b), NEW f, NEW n, Chain(b, f, n)
  PROVE  \A i, j \in 1 .. n : f[i] = f[j] => i = j
<1>0. /\ n \in Nat /\ f \in [1 .. n -> DOMAIN b.links]
      /\ \A k \in 1 .. n : k # n => f[k] \in ToSet(b.links[f[k + 1]])
  BY DEF Chain
<1>1. ASSUME NEW i \in 1 .. n, NEW j \in 1 .. n, i < j, f[i] = f[j]
      PROVE  FALSE
  <2> DEFINE S == {f[k] : k \in i .. (j - 1)}
  <2>1. \A k \in i .. (j - 1) : k \in 1 .. n
    BY <1>0, <1>1
  <2>2. S \in SUBSET DOMAIN b.links
    BY <1>0, <2>1
  <2>3. i \in i .. (j - 1)
    BY <1>0, <1>1
  <2>4. f[i] \in S
    BY <2>3
  <2>5. ASSUME NEW k \in i .. (j - 1) PROVE \E l \in i .. (j - 1) : f[l] \in ToSet(b.links[f[k]])
    <3>1. CASE k = i
      <4>1. j - 1 \in 1 .. n /\ j - 1 # n /\ (j - 1) + 1 = j /\ j - 1 \in i .. (j - 1)
        BY <1>0, <1>1
      <4>2. f[j - 1] \in ToSet(b.links[f[j]])
        BY <1>0, <4>1
      <4> QED BY <1>1, <3>1, <4>1, <4>2
    <3>2. CASE k # i
      <4>1. k - 1 \in 1 .. n /\ k - 1 # n /\ (k - 1) + 1 = k /\ k - 1 \in i .. (j - 1)
        BY <1>0, <1>1, <3>2
      <4>2. f[k - 1] \in ToSet(b.links[f[k]])
        BY <1>0, <4>1
      <4> QED BY <4>1, <4>2
    <3> QED BY <3>1, <3>2
  <2>6. \A h \in S : ToSet(b.links[h]) \cap S # {}
    BY <2>5
  <2> HIDE DEF S
  <2>7. Cyclic(b)
    BY <2>2, <2>4, <2>6 DEF Cyclic
  <2> QED BY <2>7 DEF BookRight
<1> TAKE i, j \in 1 .. n
<1> HAVE f[i] = f[j]
<1>2. ~(i < j) /\ ~(j < i)
  BY <1>1
<1> QED BY <1>0, <1>2

\* No file is read within itself.
LEMMA StackDistinct ==
  ASSUME NEW b, BookRight(b), NEW calls \in Seq(CallType(b)), StackRight(b, calls)
  PROVE  \A i, j \in 1 .. Len(calls) : calls[i].href = calls[j].href => i = j
<1> DEFINE n == Len(calls)
           f == [k \in 1 .. n |-> calls[k].href]
<1>1. n \in Nat /\ DOMAIN calls = 1 .. n
  OBVIOUS
<1>2. \A k \in 1 .. n : calls[k] \in CallType(b)
  OBVIOUS
<1>3. \A k \in 1 .. n : calls[k].href \in DOMAIN b.links
  BY <1>2 DEF CallType
<1>4. \A k \in 1 .. n : k # n => calls[k].href \in ToSet(b.links[calls[k + 1].href])
  <2>1. \A k \in DOMAIN calls : k # Len(calls) => calls[k].href \in ToSet(b.links[calls[k + 1].href])
    BY Zenon DEF StackRight
  <2> QED BY <1>1, <2>1, Zenon
<1> HIDE DEF n
<1>5. \A k \in 1 .. n : k # n => k + 1 \in 1 .. n
  BY <1>1
<1>6. /\ f \in [1 .. n -> DOMAIN b.links]
      /\ \A k \in 1 .. n : k # n => f[k] \in ToSet(b.links[f[k + 1]])
  BY <1>3, <1>4, <1>5
<1>7. \A k \in 1 .. n : f[k] = calls[k].href
  OBVIOUS
<1> HIDE DEF f
<1>8. \A i, j \in 1 .. n : f[i] = f[j] => i = j
  <2>1. Chain(b, f, n)
    BY <1>1, <1>6 DEF Chain
  <2> QED BY <2>1, NoCircle
<1>9. \A i, j \in 1 .. n : calls[i].href = calls[j].href => i = j
  BY <1>7, <1>8
<1> QED BY <1>9 DEF n

\* The calls with the innermost one replaced or returned.
LEMMA StackShift ==
  ASSUME NEW b, NEW calls \in Seq(CallType(b)), StackRight(b, calls),
         NEW calls2 \in Seq(CallType(b)), NEW k \in {0, 1}, Len(calls2) = Len(calls) - k,
         \A i \in 1 .. Len(calls2) : /\ calls2[i].href = calls[i + k].href
                                     /\ calls2[i].parents = calls[i + k].parents
                                     /\ i > 1 => calls2[i].stage = calls[i + k].stage
  PROVE  /\ StackRight(b, calls2)
         /\ calls2 # << >> => calls2[Len(calls2)].href = calls[Len(calls)].href
<1>1. /\ Len(calls) \in Nat /\ DOMAIN calls = 1 .. Len(calls)
      /\ Len(calls2) \in Nat /\ DOMAIN calls2 = 1 .. Len(calls2)
  OBVIOUS
<1>2. \A i \in 1 .. Len(calls2) :
        /\ i + k \in 1 .. Len(calls) /\ (i > 1 => i + k > 1)
        /\ i = Len(calls2) <=> i + k = Len(calls)
        /\ i # Len(calls2) => i + 1 \in 1 .. Len(calls2) /\ (i + 1) + k = (i + k) + 1
  BY <1>1
<1>3. \A i \in DOMAIN calls2 : i > 1 => calls2[i].stage = "links"
  BY <1>1, <1>2, ZenonT(60) DEF StackRight
<1>4. ASSUME NEW i \in DOMAIN calls2
      PROVE  IF i = Len(calls2) THEN calls2[i].parents = << >>
             ELSE /\ calls2[i].parents # << >> /\ Last(calls2[i].parents) = calls2[i + 1].href
                  /\ calls2[i].href \in ToSet(b.links[calls2[i + 1].href])
  <2>1. IF i + k = Len(calls) THEN calls[i + k].parents = << >>
        ELSE /\ calls[i + k].parents # << >> /\ Last(calls[i + k].parents) = calls[i + k + 1].href
             /\ calls[i + k].href \in ToSet(b.links[calls[i + k + 1].href])
    BY <1>1, <1>2 DEF StackRight
  <2>2. CASE i = Len(calls2)
    BY <1>1, <1>2, <2>1, <2>2
  <2>3. CASE i # Len(calls2)
    BY <1>1, <1>2, <2>1, <2>3
  <2> QED BY <2>2, <2>3
<1>5. calls2 # << >> => calls2[Len(calls2)].href = calls[Len(calls)].href
  <2> HAVE calls2 # << >>
  <2>1. Len(calls2) \in 1 .. Len(calls2) /\ Len(calls2) + k = Len(calls)
    BY <1>1
  <2> QED BY <2>1
<1> QED BY <1>3, <1>4, <1>5 DEF StackRight

\* What is known of a load whose calls are under way.
LEMMA LoadFacts ==
  ASSUME NEW b, NEW c, NEW lists, NEW r, LoadRight(b, c, lists, r)
  PROVE  /\ r.calls \in Seq(CallType(b)) /\ Len(r.calls) \in Nat /\ DOMAIN r.calls = 1 .. Len(r.calls)
         /\ StackRight(b, r.calls)
         /\ \A i \in 1 .. Len(r.calls) : r.calls[i] \in CallType(b) /\ CallRight(b, c, lists, r.calls[i])
<1>1. r.calls \in Seq(CallType(b))
  BY DEF LoadRight, LoadType
<1>2. Len(r.calls) \in Nat /\ DOMAIN r.calls = 1 .. Len(r.calls)
  BY <1>1
<1>3. \A i \in 1 .. Len(r.calls) : r.calls[i] \in CallType(b)
  BY <1>1
<1> QED BY <1>1, <1>2, <1>3, Zenon DEF LoadRight

\* Other calls under way for the same section.
LEMMA WithCalls ==
  ASSUME NEW b, NEW c, NEW lists, NEW r, LoadRight(b, c, lists, r), r.calls # << >>,
         NEW c2, NEW lists2, NEW calls \in Seq(CallType(b)), calls # << >>, StackRight(b, calls),
         calls[Len(calls)].href = r.calls[Len(r.calls)].href,
         \A i \in 1 .. Len(calls) : CallRight(b, c2, lists2, calls[i])
  PROVE  LoadRight(b, c2, lists2, [r EXCEPT !.calls = calls])
<1> DEFINE r2 == [r EXCEPT !.calls = calls]
<1>1. r \in LoadType(b)
  BY Zenon DEF LoadRight
<1>2. /\ r2.calls = calls /\ r2.to = r.to /\ r2.old = r.old /\ r2.url = r.url /\ r2.stage = r.stage
      /\ r2 \in LoadType(b)
  BY <1>1 DEF LoadType
<1> HIDE DEF r2
<1>3. DOMAIN calls = 1 .. Len(calls)
  OBVIOUS
<1>4. /\ r.calls[Len(r.calls)].href = r.to /\ r.to \in b.spine /\ r.stage = "load" /\ r.url = Nothing
      /\ r.to # Nothing => r.to # r.old
  BY Zenon DEF LoadRight
<1>5. /\ r2 \in LoadType(b) /\ StackRight(b, r2.calls)
      /\ \A i \in DOMAIN r2.calls : CallRight(b, c2, lists2, r2.calls[i])
  BY <1>2, <1>3
<1>6. /\ r2.calls[Len(r2.calls)].href = r2.to /\ r2.to \in b.spine /\ r2.stage = "load"
      /\ r2.url = Nothing /\ r2.calls # << >>
      /\ r2.to # Nothing => r2.to # r2.old
  BY <1>2, <1>4
<1> QED BY <1>5, <1>6 DEF LoadRight, r2

\* What stays busy when the calls become others.
LEMMA BusyShift ==
  ASSUME NEW S, NEW calls \in Seq(S), NEW calls2 \in Seq(S), NEW k \in {-1, 0, 1},
         Len(calls2) = Len(calls) - k,
         \A i \in 1 .. Len(calls) : i - k >= 1 /\ calls[i].stage = "links" =>
           calls2[i - k].href = calls[i].href /\ calls2[i - k].stage = "links"
  PROVE  \A h \in Busy(calls) :
           h \in Busy(calls2) \/ (k = 1 /\ calls[1].stage = "links" /\ h = calls[1].href)
<1> TAKE h \in Busy(calls)
<1>0. /\ Len(calls) \in Nat /\ DOMAIN calls = 1 .. Len(calls)
      /\ Len(calls2) \in Nat /\ DOMAIN calls2 = 1 .. Len(calls2)
  OBVIOUS
<1>1. PICK i \in 1 .. Len(calls) : calls[i].stage = "links" /\ h = calls[i].href
  BY <1>0 DEF Busy
<1>2. CASE i - k >= 1
  <2>1. i - k \in 1 .. Len(calls2)
    BY <1>0, <1>2
  <2>2. calls2[i - k].href = h /\ calls2[i - k].stage = "links"
    BY <1>1, <1>2
  <2> QED BY <1>0, <2>1, <2>2 DEF Busy
<1>3. CASE ~(i - k >= 1)
  <2>1. k = 1 /\ i = 1
    BY <1>0, <1>3
  <2> QED BY <1>1, <2>1
<1> QED BY <1>2, <1>3

\* The innermost call goes on with the same file.
LEMMA TopRight ==
  ASSUME NEW b, NEW c, NEW lists, NEW r, LoadRight(b, c, lists, r), r.calls # << >>,
         NEW x \in CallType(b), x.href = r.calls[1].href, x.parents = r.calls[1].parents,
         CallRight(b, c, lists, x), r.calls[1].stage = "links" => x.stage = "links"
  PROVE  /\ LoadRight(b, c, lists, [r EXCEPT !.calls = <<x>> \o Tail(r.calls)])
         /\ Busy(r.calls) \subseteq Busy(<<x>> \o Tail(r.calls))
<1> DEFINE calls == r.calls
           calls2 == <<x>> \o Tail(calls)
<1>1. /\ calls \in Seq(CallType(b)) /\ Len(calls) \in Nat /\ DOMAIN calls = 1 .. Len(calls)
      /\ StackRight(b, calls)
      /\ \A i \in 1 .. Len(calls) : calls[i] \in CallType(b) /\ CallRight(b, c, lists, calls[i])
  BY LoadFacts
<1>2. /\ calls2 \in Seq(CallType(b)) /\ Len(calls2) = Len(calls) /\ calls2[1] = x
      /\ \A i \in 2 .. Len(calls) : calls2[i] = calls[i]
  BY <1>1, ConsTail
<1> HIDE DEF calls2
<1>3. Len(calls) # 0 /\ calls2 # << >>
  BY <1>1, <1>2
<1>4. \A i \in 1 .. Len(calls2) : i = 1 \/ i \in 2 .. Len(calls)
  BY <1>1, <1>2
<1>5. \A i \in 1 .. Len(calls2) :
        /\ calls2[i].href = calls[i].href /\ calls2[i].parents = calls[i].parents
        /\ i > 1 => calls2[i].stage = calls[i].stage
  BY <1>2, <1>4
<1>6. /\ StackRight(b, calls2) /\ calls2[Len(calls2)].href = calls[Len(calls)].href
  <2>1. \A i \in 1 .. Len(calls2) :
        /\ calls2[i].href = calls[i + 0].href /\ calls2[i].parents = calls[i + 0].parents
        /\ i > 1 => calls2[i].stage = calls[i + 0].stage
    BY <1>5
  <2>2. Len(calls2) = Len(calls) - 0
    BY <1>1, <1>2
  <2> HIDE DEF calls
  <2> QED BY <1>1, <1>2, <1>3, <2>1, <2>2, StackShift
<1>7. \A i \in 1 .. Len(calls2) : CallRight(b, c, lists, calls2[i])
  BY <1>1, <1>2, <1>4
<1>8. LoadRight(b, c, lists, [r EXCEPT !.calls = calls2])
  BY <1>2, <1>3, <1>6, <1>7, WithCalls
<1>9. Busy(calls) \subseteq Busy(calls2)
  <2>1. \A i \in 1 .. Len(calls) : i - 0 >= 1 /\ calls[i].stage = "links" =>
           calls2[i - 0].href = calls[i].href /\ calls2[i - 0].stage = "links"
    BY <1>1, <1>2, <1>4
  <2>2. Len(calls2) = Len(calls) - 0
    BY <1>1, <1>2
  <2> HIDE DEF calls
  <2>3. \A h \in Busy(calls) : h \in Busy(calls2) \/ (0 = 1 /\ calls[1].stage = "links" /\ h = calls[1].href)
    BY <1>1, <1>2, <2>1, <2>2, BusyShift
  <2> QED BY <2>3
<1> QED BY <1>8, <1>9 DEF calls2

\* The innermost call waits for the next file that it refers to.
Waits(call) == [call EXCEPT !.todo = Tail(@)]
Inner(call) == Call(Head(call.todo), Append(call.parents, call.href))

\* Both calls are right.
LEMMA LinkCalls ==
  ASSUME NEW b, NEW c, NEW lists, NEW top \in CallType(b), CallRight(b, c, lists, top),
         top.stage = "links", top.todo # << >>
  PROVE  LET x == Waits(top)
             y == Inner(top)
         IN /\ x \in CallType(b) /\ x.href = top.href /\ x.parents = top.parents /\ x.stage = "links"
            /\ y \in CallType(b) /\ y.parents # << >> /\ Last(y.parents) = x.href
            /\ CallRight(b, c, lists, x) /\ CallRight(b, c, lists, y)
            /\ y.href \in ToSet(b.links[x.href])
<1> DEFINE x == Waits(top)
           y == Inner(top)
           t == top.todo
           H == DOMAIN b.links
           up == top.parents
<1>1. /\ top.href \in H /\ up \in Seq(H) /\ t \in Seq(H) /\ t # << >>
  BY DEF CallType
<1>2. /\ t[1] \in H /\ Tail(t) \in Seq(H) /\ Head(t) = t[1]
      /\ Len(t) \in Nat \ {0} /\ Len(Tail(t)) = Len(t) - 1
      /\ \A i \in 1 .. Len(t) - 1 : Tail(t)[i] = t[i + 1]
  <2> HIDE DEF t, H
  <2> QED BY <1>1, TailFacts
<1>3. Head(t) \in ToSet(t) /\ ToSet(Tail(t)) \subseteq ToSet(t)
  <2> HIDE DEF t, H
  <2>1. DOMAIN t = 1 .. Len(t) /\ DOMAIN Tail(t) = 1 .. Len(t) - 1
    BY <1>1, <1>2
  <2>2. 1 \in 1 .. Len(t) /\ \A i \in 1 .. Len(t) - 1 : i + 1 \in 1 .. Len(t)
    BY <1>2
  <2> QED BY <1>2, <2>1, <2>2 DEF ToSet
<1>4. Append(up, top.href) \in Seq(H) /\ Append(up, top.href) # << >> /\ Last(Append(up, top.href)) = top.href
  <2> DEFINE h == top.href
  <2>1. h \in H /\ up \in Seq(H)
    BY <1>1
  <2> HIDE DEF up, H, h
  <2>2. /\ Append(up, h) \in Seq(H) /\ Len(Append(up, h)) = Len(up) + 1
        /\ Append(up, h)[Len(up) + 1] = h /\ Len(up) \in Nat
    BY <2>1
  <2>3. Append(up, h) # << >>
    BY <2>2
  <2> QED BY <2>2, <2>3 DEF Last, h
<1>5. /\ x \in CallType(b) /\ x.href = top.href /\ x.parents = up /\ x.stage = "links"
      /\ x.todo = Tail(t) /\ x.urls = top.urls
  BY <1>1, <1>2 DEF CallType, Waits
<1>6. << >> \in Seq(H) /\ ToSet(<< >>) = {}
  BY EmptySeqSet
<1>7. Head(t) \in H
  BY <1>2
<1>8. /\ y \in CallType(b) /\ y.href = Head(t) /\ y.parents = Append(up, top.href)
      /\ y.stage = "item" /\ y.todo = << >> /\ y.urls = {}
  BY <1>4, <1>6, <1>7 DEF CallType, Call, Inner
<1>9. /\ ToSet(t) \subseteq ToSet(b.links[top.href])
      /\ c[top.href] = Nothing /\ Agrees(top.urls, UrlsOf(c, lists[top.href]))
  BY DEF CallRight
<1> HIDE DEF x, y
<1>10. CallRight(b, c, lists, x)
  BY <1>3, <1>5, <1>9 DEF CallRight
<1>11. CallRight(b, c, lists, y)
  BY <1>6, <1>8 DEF CallRight
<1>12. y.href \in ToSet(b.links[x.href])
  BY <1>3, <1>5, <1>8, <1>9
<1>13. Last(y.parents) = x.href /\ y.parents # << >>
  BY <1>4, <1>5, <1>8
<1> QED BY <1>5, <1>8, <1>10, <1>11, <1>12, <1>13 DEF x, y

\* And so is the load with them.
LEMMA PushRight ==
  ASSUME NEW b, NEW c, NEW lists, NEW r, LoadRight(b, c, lists, r), r.calls # << >>,
         r.calls[1].stage = "links", r.calls[1].todo # << >>
  PROVE  LET calls2 == <<Inner(r.calls[1]), Waits(r.calls[1])>> \o Tail(r.calls)
         IN LoadRight(b, c, lists, [r EXCEPT !.calls = calls2]) /\ Busy(r.calls) \subseteq Busy(calls2)
<1> DEFINE calls == r.calls
           n == Len(calls)
           top == calls[1]
           x == Waits(top)
           y == Inner(top)
           calls2 == <<y, x>> \o Tail(calls)
<1>1. /\ calls \in Seq(CallType(b)) /\ n \in Nat /\ DOMAIN calls = 1 .. n
      /\ StackRight(b, calls)
      /\ \A i \in 1 .. n : calls[i] \in CallType(b) /\ CallRight(b, c, lists, calls[i])
  BY LoadFacts
<1>2. n # 0 /\ 1 \in 1 .. n
  BY <1>1
<1>3. /\ x \in CallType(b) /\ x.href = top.href /\ x.parents = top.parents /\ x.stage = "links"
      /\ y \in CallType(b) /\ y.parents # << >> /\ Last(y.parents) = x.href
      /\ CallRight(b, c, lists, x) /\ CallRight(b, c, lists, y)
      /\ y.href \in ToSet(b.links[x.href])
  <2>1. top \in CallType(b) /\ CallRight(b, c, lists, top)
    BY <1>1, <1>2
  <2> HIDE DEF top
  <2>2. top.stage = "links" /\ top.todo # << >>
    BY DEF top
  <2> QED BY <2>1, <2>2, LinkCalls
<1> HIDE DEF x, y
<1> HIDE DEF top
<1>11. /\ calls2 \in Seq(CallType(b)) /\ Len(calls2) = n + 1 /\ calls2[1] = y /\ calls2[2] = x
       /\ \A i \in 2 .. n : calls2[i + 1] = calls[i]
  <2> HIDE DEF calls
  <2> QED BY <1>1, <1>2, <1>3, PushTail
<1> HIDE DEF calls2
<1>12. DOMAIN calls2 = 1 .. n + 1 /\ calls2 # << >>
  BY <1>1, <1>11
<1>13. \A i \in 1 .. n + 1 : i = 1 \/ (i = 2 /\ i - 1 = 1 /\ 1 <= n) \/ (i - 1 \in 2 .. n /\ i - 1 + 1 = i /\ i > 2)
  BY <1>1, <1>2
<1>14. \A i \in 2 .. n + 1 : /\ i - 1 \in 1 .. n /\ calls2[i].href = calls[i - 1].href
                            /\ calls2[i].parents = calls[i - 1].parents
                            /\ calls2[i].stage = "links"
  <2> TAKE i \in 2 .. n + 1
  <2>1. CASE i = 2
    BY <1>2, <1>3, <1>11, <2>1 DEF top
  <2>2. CASE i - 1 \in 2 .. n /\ i - 1 + 1 = i
    <3>1. calls2[i] = calls[i - 1] /\ i - 1 \in 1 .. n /\ i - 1 > 1
      BY <1>1, <1>11, <2>2, SMTT(30)
    <3>2. calls[i - 1].stage = "links"
      BY <1>1, <3>1 DEF StackRight
    <3> QED BY <3>1, <3>2
  <2> QED BY <1>1, <1>13, <2>1, <2>2
<1>15. \A i \in 1 .. n + 1 : i > 1 => i \in 2 .. n + 1
  BY <1>1
<1>16. ASSUME NEW i \in 1 .. n + 1
       PROVE  IF i = n + 1 THEN calls2[i].parents = << >>
              ELSE /\ calls2[i].parents # << >> /\ Last(calls2[i].parents) = calls2[i + 1].href
                   /\ calls2[i].href \in ToSet(b.links[calls2[i + 1].href])
  <2>1. CASE i = 1
    <3>1. i # n + 1 /\ i + 1 = 2
      BY <1>1, <1>2, <2>1
    <3>2. calls2[1].parents # << >> /\ Last(calls2[1].parents) = calls2[2].href
      BY <1>3, <1>11
    <3>3. calls2[1].href \in ToSet(b.links[calls2[2].href])
      BY <1>3, <1>11
    <3> QED BY <2>1, <3>1, <3>2, <3>3
  <2>2. CASE i # 1
    <3>1. i \in 2 .. n + 1 /\ i - 1 \in 1 .. n /\ (i = n + 1 <=> i - 1 = n) /\ (i - 1) + 1 = i
      <4>1. n \in Nat
        BY <1>1
      <4> HIDE DEF n
      <4> QED BY <2>2, <4>1
    <3>2. IF i - 1 = n THEN calls[i - 1].parents = << >>
          ELSE /\ calls[i - 1].parents # << >> /\ Last(calls[i - 1].parents) = calls[i - 1 + 1].href
               /\ calls[i - 1].href \in ToSet(b.links[calls[i - 1 + 1].href])
      BY <1>1, <3>1 DEF StackRight
    <3>3. i # n + 1 => i + 1 \in 2 .. n + 1 /\ i + 1 - 1 = i
      BY <1>1, <3>1
    <3>4. i # n + 1 => calls2[i + 1].href = calls[i].href
      BY <1>14, <3>3
    <3>5. calls2[i].href = calls[i - 1].href /\ calls2[i].parents = calls[i - 1].parents
      BY <1>14, <3>1
    <3> QED BY <3>1, <3>2, <3>4, <3>5
  <2> QED BY <2>1, <2>2
<1>17. Len(calls2) = n + 1
  BY <1>11
<1>18. StackRight(b, calls2)
  <2>1. \A i \in DOMAIN calls2 : i > 1 => calls2[i].stage = "links"
    BY <1>12, <1>14, <1>15
  <2> QED BY <1>12, <1>16, <1>17, <2>1 DEF StackRight
<1>19. calls2[Len(calls2)].href = calls[n].href
  <2>1. n + 1 \in 2 .. n + 1 /\ (n + 1) - 1 = n
    BY <1>1, <1>2
  <2>2. calls2[n + 1].href = calls[(n + 1) - 1].href
    BY <1>14, <2>1
  <2> QED BY <1>17, <2>1, <2>2
<1>20. \A i \in 1 .. Len(calls2) : CallRight(b, c, lists, calls2[i])
  <2> TAKE i \in 1 .. Len(calls2)
  <2>1. CASE i = 1
    BY <1>3, <1>11, <2>1
  <2>2. CASE i = 2
    BY <1>3, <1>11, <2>2
  <2>3. CASE i - 1 \in 2 .. n /\ i - 1 + 1 = i
    <3>1. calls2[i] = calls[i - 1] /\ i - 1 \in 1 .. n
      BY <1>1, <1>11, <2>3
    <3> QED BY <1>1, <3>1
  <2> QED BY <1>13, <1>17, <2>1, <2>2, <2>3
<1>21. LoadRight(b, c, lists, [r EXCEPT !.calls = calls2])
  BY <1>11, <1>12, <1>18, <1>19, <1>20, WithCalls
<1>22. Busy(calls) \subseteq Busy(calls2)
  <2>1. \A i \in 1 .. n : i - (-1) >= 1 /\ calls[i].stage = "links" =>
           calls2[i - (-1)].href = calls[i].href /\ calls2[i - (-1)].stage = "links"
    <3> TAKE i \in 1 .. n
    <3>1. i + 1 \in 2 .. n + 1 /\ i + 1 - 1 = i /\ i - (-1) = i + 1
      BY <1>1
    <3> QED BY <1>14, <3>1
  <2>2. Len(calls2) = Len(calls) - (-1)
    BY <1>1, <1>11
  <2> HIDE DEF calls
  <2>3. \A h \in Busy(calls) : h \in Busy(calls2) \/ (-1 = 1 /\ calls[1].stage = "links" /\ h = calls[1].href)
    BY <1>1, <1>11, <2>1, <2>2, BusyShift
  <2> QED BY <2>3
<1> QED BY <1>21, <1>22 DEF calls2, x, y, top

\* The load after its innermost call returned a URL.
Returned(r, url) ==
  LET rest == Tail(r.calls)
      kept == IF url = Nothing THEN {} ELSE {url}
  IN IF rest = << >> THEN [r EXCEPT !.calls = << >>, !.url = url]
     ELSE [r EXCEPT !.calls = <<[Head(rest) EXCEPT !.urls = @ \union kept]>> \o Tail(rest)]

\* The last call returns: the section has its URL.
LEMMA ReturnLast ==
  ASSUME NEW b, NEW c, NEW lists, NEW r, LoadRight(b, c, lists, r), r.calls # << >>,
         NEW c2, NEW lists2, NEW url \in Nat \union {Nothing}, Tail(r.calls) = << >>,
         url # Nothing => url = c2[r.calls[1].href]
  PROVE  LoadRight(b, c2, lists2, Returned(r, url))
<1> DEFINE r2 == [r EXCEPT !.calls = << >>, !.url = url]
<1>1. /\ r \in LoadType(b) /\ r.stage = "load" /\ (r.to # Nothing => r.to # r.old)
      /\ r.calls[Len(r.calls)].href = r.to /\ r.to \in b.spine
  BY Zenon DEF LoadRight
<1>2. r.calls \in Seq(CallType(b))
  BY LoadFacts
<1>3. Len(r.calls) = 1
  <2> DEFINE calls == r.calls
  <2>1. Len(Tail(calls)) = Len(calls) - 1 /\ Len(calls) \in Nat
    BY <1>2, TailFacts
  <2>2. Len(Tail(calls)) = 0
    <3>1. Tail(calls) = << >> /\ Len(<< >>) = 0
      OBVIOUS
    <3> QED BY ONLY <3>1, Zenon
  <2> HIDE DEF calls
  <2>3. Len(calls) = 1
    BY <2>1, <2>2
  <2> QED BY <2>3 DEF calls
<1>4. << >> \in Seq(CallType(b))
  BY EmptySeqSet
<1>5. /\ r2.calls = << >> /\ r2.to = r.to /\ r2.old = r.old /\ r2.url = url /\ r2.stage = "load"
      /\ r2 \in LoadType(b)
  BY <1>1, <1>4 DEF LoadType
<1>6. Returned(r, url) = r2
  BY DEF Returned
<1> HIDE DEF r2
<1>7. /\ StackRight(b, r2.calls) /\ \A i \in DOMAIN r2.calls : CallRight(b, c2, lists2, r2.calls[i])
  BY <1>5 DEF StackRight
<1>8. LoadRight(b, c2, lists2, r2)
  BY <1>1, <1>3, <1>5, <1>7 DEF LoadRight
<1> QED BY <1>6, <1>8

\* What the calls that go on must find: their files without a URL, and what they got.
StillRight(b, c, lists, c2, lists2, calls, url) ==
  \A i \in 2 .. Len(calls) :
    /\ c2[calls[i].href] = Nothing
    /\ UrlsOf(c2, lists2[calls[i].href])
         = UrlsOf(c, lists[calls[i].href]) \union (IF i = 2 /\ url # Nothing THEN {url} ELSE {})

\* What stays busy: all but the file of the innermost call, and the one that waits for it.
StaysBusy(r, r2) ==
  /\ \A h \in Busy(r.calls) : h \in Busy(r2.calls) \/ (r.calls[1].stage = "links" /\ h = r.calls[1].href)
  /\ Tail(r.calls) # << >> => r.calls[2].href \in Busy(r2.calls)

\* Another call returns: the next one goes on with one URL more.
LEMMA ReturnRight ==
  ASSUME NEW b, NEW c, NEW lists, NEW r, LoadRight(b, c, lists, r), r.calls # << >>,
         NEW c2, NEW lists2, NEW url \in Nat \union {Nothing}, Tail(r.calls) # << >>,
         StillRight(b, c, lists, c2, lists2, r.calls, url)
  PROVE  /\ LoadRight(b, c2, lists2, Returned(r, url))
         /\ StaysBusy(r, Returned(r, url))
<1> DEFINE calls == r.calls
           n == Len(calls)
           rest == Tail(calls)
           kept == IF url = Nothing THEN {} ELSE {url}
           x == [Head(rest) EXCEPT !.urls = @ \union kept]
           calls2 == <<x>> \o Tail(rest)
<1>1. /\ calls \in Seq(CallType(b)) /\ n \in Nat /\ DOMAIN calls = 1 .. n
      /\ StackRight(b, calls)
      /\ \A i \in 1 .. n : calls[i] \in CallType(b) /\ CallRight(b, c, lists, calls[i])
  BY LoadFacts
<1>2. /\ rest \in Seq(CallType(b)) /\ n \in Nat \ {0} /\ Len(rest) = n - 1
      /\ \A i \in 1 .. n - 1 : rest[i] = calls[i + 1]
  BY <1>1, TailFacts
<1>3. Head(rest) = rest[1] /\ Len(rest) \in Nat \ {0}
  BY <1>2, TailFacts
<1>4. n >= 2 /\ 1 \in 1 .. n - 1 /\ 2 \in 1 .. n /\ n \in 1 .. n
  BY <1>2, <1>3
<1>5. Head(rest) = calls[2]
  BY <1>2, <1>3, <1>4
<1>6. /\ calls[2] \in CallType(b) /\ calls[2].stage = "links" /\ calls[2].urls \in SUBSET Nat
      /\ CallRight(b, c, lists, calls[2])
  <2>1. calls[2] \in CallType(b) /\ CallRight(b, c, lists, calls[2])
    BY <1>1, <1>4
  <2>2. calls[2].stage = "links"
    <3>1. 2 \in DOMAIN calls /\ 2 > 1
      BY <1>1, <1>4
    <3> QED BY <1>1, <3>1, Zenon DEF StackRight
  <2>3. calls[2].urls \in SUBSET Nat
    BY <2>1 DEF CallType
  <2> QED BY <2>1, <2>2, <2>3
<1>7. kept \in SUBSET Nat
  OBVIOUS
<1>8. /\ x \in CallType(b) /\ x.href = calls[2].href /\ x.parents = calls[2].parents /\ x.stage = "links"
      /\ x.todo = calls[2].todo /\ x.urls = calls[2].urls \union kept
  BY <1>5, <1>6, <1>7 DEF CallType
<1>9. Returned(r, url) = [r EXCEPT !.calls = calls2]
  BY DEF Returned
<1> HIDE DEF x, rest, kept
<1>10. /\ calls2 \in Seq(CallType(b)) /\ Len(calls2) = n - 1 /\ calls2[1] = x
       /\ \A i \in 2 .. n - 1 : calls2[i] = rest[i]
  <2>1. /\ calls2 \in Seq(CallType(b)) /\ Len(calls2) = Len(rest) /\ calls2[1] = x
        /\ \A i \in 2 .. Len(rest) : calls2[i] = rest[i]
    <3>1. rest \in Seq(CallType(b)) /\ rest # << >> /\ x \in CallType(b)
      BY <1>2, <1>3, <1>8
    <3> QED BY ONLY <3>1, ConsTail
  <2> QED BY <1>2, <2>1
<1> HIDE DEF calls2
<1>11. DOMAIN calls2 = 1 .. n - 1 /\ calls2 # << >>
  BY <1>1, <1>4, <1>10
<1>12. \A i \in 1 .. n - 1 : i = 1 \/ i \in 2 .. n - 1
  BY <1>1
<1>13. \A i \in 2 .. n - 1 : calls2[i] = calls[i + 1] /\ i + 1 \in 2 .. n /\ i + 1 # 2 /\ i + 1 \in 1 .. n /\ i + 1 > 1
  <2>1. \A i \in 2 .. n - 1 : i \in 1 .. n - 1 /\ i + 1 \in 2 .. n /\ i + 1 # 2 /\ i + 1 \in 1 .. n /\ i + 1 > 1
    BY <1>1
  <2> QED BY <1>2, <1>10, <2>1
<1>14. \A i \in 1 .. n - 1 :
        /\ calls2[i].href = calls[i + 1].href /\ calls2[i].parents = calls[i + 1].parents
        /\ calls2[i].stage = "links"
  <2> TAKE i \in 1 .. n - 1
  <2>1. CASE i = 1
    BY <1>8, <1>10, <2>1
  <2>2. CASE i \in 2 .. n - 1
    <3>1. calls2[i] = calls[i + 1] /\ i + 1 \in 1 .. n /\ i + 1 > 1
      BY <1>13, <2>2
    <3>2. calls[i + 1].stage = "links"
      BY <1>1, <3>1 DEF StackRight
    <3> QED BY <3>1, <3>2
  <2> QED BY <1>12, <2>1, <2>2
<1>15. Len(calls2) = n - 1
  BY <1>10
<1>16. /\ StackRight(b, calls2) /\ calls2[Len(calls2)].href = calls[Len(calls)].href
  <2>1. \A i \in 1 .. Len(calls2) : i + 1 \in 1 .. n /\ i + 1 > 1
    <3>1. n \in Nat
      BY <1>1
    <3> HIDE DEF n
    <3> QED BY <3>1, <1>15
  <2>2. \A i \in 1 .. Len(calls2) :
        /\ calls2[i].href = calls[i + 1].href /\ calls2[i].parents = calls[i + 1].parents
        /\ i > 1 => calls2[i].stage = calls[i + 1].stage
    BY <1>1, <1>14, <1>15, <2>1 DEF StackRight
  <2> HIDE DEF calls
  <2> QED BY <1>1, <1>10, <1>11, <1>15, <2>2, StackShift
<1>17. \A i \in 1 .. Len(calls2) : CallRight(b, c2, lists2, calls2[i])
  <2> TAKE i \in 1 .. Len(calls2)
  <2>1. CASE i = 1
    <3>1. c2[x.href] = Nothing /\ UrlsOf(c2, lists2[x.href]) = UrlsOf(c, lists[x.href]) \union kept
      <4>1. 2 \in 2 .. Len(calls)
        BY <1>1, <1>4
      <4> QED BY <1>8, <4>1 DEF StillRight, kept
    <3>2. Agrees(x.urls, UrlsOf(c, lists[x.href]) \union kept)
      BY <1>6, <1>8 DEF CallRight, Agrees
    <3>3. ToSet(x.todo) \subseteq ToSet(b.links[x.href])
      BY <1>6, <1>8 DEF CallRight
    <3>4. CallRight(b, c2, lists2, x)
      BY <1>8, <3>1, <3>2, <3>3 DEF CallRight
    <3> QED BY <1>10, <2>1, <3>4
  <2>2. CASE i \in 2 .. n - 1
    <3> DEFINE w == calls[i + 1]
    <3>1. calls2[i] = w /\ i + 1 \in 2 .. n /\ i + 1 # 2 /\ i + 1 \in 1 .. n /\ i + 1 > 1
      BY <1>13, <2>2
    <3>2. w.stage = "links" /\ CallRight(b, c, lists, w)
      BY <1>1, <3>1 DEF StackRight
    <3>3. c2[w.href] = Nothing /\ UrlsOf(c2, lists2[w.href]) = UrlsOf(c, lists[w.href])
      BY <3>1 DEF StillRight
    <3> HIDE DEF w
    <3>4. CallRight(b, c2, lists2, w)
      BY <3>2, <3>3 DEF CallRight
    <3> QED BY <3>1, <3>4
  <2> QED BY <1>12, <1>15, <2>1, <2>2
<1>18. LoadRight(b, c2, lists2, [r EXCEPT !.calls = calls2])
  BY <1>10, <1>11, <1>16, <1>17, WithCalls
<1>19. Returned(r, url).calls = calls2
  <2>1. r \in LoadType(b)
    BY Zenon DEF LoadRight
  <2> QED BY <1>9, <2>1 DEF LoadType
<1>20. calls[2].href \in Busy(calls2)
  BY <1>4, <1>8, <1>10, <1>11 DEF Busy
<1>21. \A h \in Busy(calls) : h \in Busy(calls2) \/ (calls[1].stage = "links" /\ h = calls[1].href)
  <2>1. \A i \in 1 .. n : i - 1 >= 1 /\ calls[i].stage = "links" =>
           calls2[i - 1].href = calls[i].href /\ calls2[i - 1].stage = "links"
    <3> TAKE i \in 1 .. n
    <3>1. i - 1 >= 1 => i - 1 \in 1 .. n - 1 /\ i - 1 + 1 = i
      BY <1>1
    <3> QED BY <1>14, <3>1
  <2>2. Len(calls2) = Len(calls) - 1
    BY <1>1, <1>10
  <2> HIDE DEF calls
  <2>3. \A h \in Busy(calls) : h \in Busy(calls2) \/ (1 = 1 /\ calls[1].stage = "links" /\ h = calls[1].href)
    BY <1>1, <1>10, <2>1, <2>2, BusyShift
  <2> QED BY <2>3
<1>22. StaysBusy(r, Returned(r, url))
  BY <1>19, <1>20, <1>21 DEF StaysBusy
<1> QED BY <1>9, <1>18, <1>22

\* Without other calls nothing is busy any more.
LEMMA ReturnLastBusy ==
  ASSUME NEW b, NEW c, NEW lists, NEW r, LoadRight(b, c, lists, r), r.calls # << >>,
         NEW url, Tail(r.calls) = << >>
  PROVE  StaysBusy(r, Returned(r, url))
<1>1. r \in LoadType(b)
  BY Zenon DEF LoadRight
<1>2. r.calls \in Seq(CallType(b))
  BY LoadFacts
<1>3. Len(r.calls) = 1 /\ DOMAIN r.calls = {1}
  <2> DEFINE calls == r.calls
  <2>1. Len(Tail(calls)) = Len(calls) - 1 /\ Len(calls) \in Nat /\ DOMAIN calls = 1 .. Len(calls)
    BY <1>2, TailFacts
  <2>2. Len(Tail(calls)) = 0
    <3>1. Tail(calls) = << >> /\ Len(<< >>) = 0
      OBVIOUS
    <3> QED BY ONLY <3>1, Zenon
  <2> HIDE DEF calls
  <2>3. Len(calls) = 1
    BY <2>1, <2>2
  <2>4. DOMAIN calls = {1}
    BY <2>1, <2>3
  <2> QED BY <2>3, <2>4 DEF calls
<1>4. Returned(r, url).calls = << >>
  BY <1>1 DEF Returned, LoadType
<1> QED BY <1>3, <1>4 DEF Busy, StaysBusy

\* Which files are being rewritten matters only for those that have children already.
LEMMA KeptBusy ==
  ASSUME NEW b, NEW bl, NEW c, NEW n, NEW lists, NEW lv, NEW busy, NEW busy2,
         Kept(b, bl, c, n, lists, lv, << >>, busy), busy \subseteq busy2
  PROVE  Kept(b, bl, c, n, lists, lv, << >>, busy2)
<1>1. ListsRight(b, c, lists, busy)
  BY DEF Kept
<1>2. ListsRight(b, c, lists, busy2)
  BY <1>1 DEF ListsRight
<1> QED BY <1>2, Zenon DEF Kept

\* With one load, what is busy are the files of its calls.
LEMMA BusyAlone ==
  ASSUME NEW loads, NEW l \in Loads, \A k \in Loads : loads[k] # Nothing => k = l
  PROVE  /\ loads[l] # Nothing => BusyOf(loads) = Busy(loads[l].calls)
         /\ loads[l] = Nothing => BusyOf(loads) = {}
<1>1. ASSUME loads[l] # Nothing PROVE {k \in Loads : loads[k] # Nothing} = {l}
  BY <1>1
<1>2. ASSUME loads[l] = Nothing PROVE {k \in Loads : loads[k] # Nothing} = {}
  BY <1>2
<1> QED BY <1>1, <1>2, Zenon DEF BusyOf

\* The parts of OrderlyInv for the load under way.
LEMMA OrderlyFacts ==
  ASSUME OrderlyInv, NEW l \in Loads, load[l] # Nothing
  PROVE  /\ Kept(book, blobs, cache, refCount, children, live, << >>, Busy(load[l].calls))
         /\ LoadRight(book, cache, children, load[l])
         /\ load \in [Loads -> LoadType(book) \union {Nothing}]
         /\ \A k \in Loads : k # l => load[k] = Nothing
         /\ index \in book.spine \union {Nothing} /\ ViewRight
<1>1. \A k \in Loads : load[k] # Nothing => k = l
  BY DEF OrderlyInv, OneLoad
<1>2. BusyNow = Busy(load[l].calls)
  BY <1>1, BusyAlone, Zenon DEF BusyNow
<1>3. load \in [Loads -> LoadType(book) \union {Nothing}]
  BY DEF OrderlyInv, OneLoad
<1> QED BY <1>1, <1>2, <1>3, Zenon DEF OrderlyInv

\* What the invariant asks of a step when no load fails.
LEMMA OrderlyAfter ==
  ASSUME failed' = failed,
         Kept(book', blobs', cache', refCount', children', live', << >>, BusyNow'),
         \A k \in Loads : load'[k] # Nothing => LoadRight(book', cache', children', load'[k]),
         OneLoad', ViewRight', index' \in book'.spine \union {Nothing}
  PROVE  OrderlyInv'
<1>1. Kept(book, blobs, cache, refCount, children, live, << >>, BusyNow)'
  BY DEF Kept, UrlsRight, ListsRight, Agrees
<1>2. (\A k \in Loads : load[k] # Nothing => LoadRight(book, cache, children, load[k]))'
  BY DEF LoadRight, CallRight, Agrees
<1> QED BY <1>1, <1>2, Zenon DEF OrderlyInv

\* A step of the one load that is under way.
StepKept(r) ==
  /\ Kept(book, blobs', cache', refCount', children', live', << >>, Busy(r.calls))
  /\ LoadRight(book, cache', children', r)

\* The load goes on for its section.
GoesOn(l) ==
  /\ load'[l] # Nothing /\ load'[l].to = load[l].to /\ load'[l].old = load[l].old
  /\ load'[l].stage = "load"

\* The step of the load: what must hold of it.
LEMMA StepOrderly ==
  ASSUME BookRight(book), OrderlyInv, NEW l \in Loads, load[l] # Nothing, load[l].stage = "load",
         NEW r, load' = [load EXCEPT ![l] = r], r.stage = "load", StepKept(r),
         UNCHANGED <<book, index, view, failed>>,
         \A s \in book.spine : cache[s] # Nothing => cache'[s] = cache[s]
  PROVE  OrderlyInv' /\ load'[l] = r /\ r # Nothing
<1>1. /\ load \in [Loads -> LoadType(book) \union {Nothing}]
      /\ \A k \in Loads : k # l => load[k] = Nothing
      /\ index \in book.spine \union {Nothing} /\ ViewRight
  BY OrderlyFacts
<1>2. r \in LoadType(book) /\ LoadRight(book, cache', children', r)
      /\ Kept(book, blobs', cache', refCount', children', live', << >>, Busy(r.calls))
  BY Zenon DEF StepKept, LoadRight
<1>3. r # Nothing
  BY <1>2 DEF BookRight
<1>4. /\ load'[l] = r /\ \A k \in Loads : k # l => load'[k] = Nothing
      /\ load' \in [Loads -> LoadType(book) \union {Nothing}]
  BY <1>1, <1>2
<1>5. BusyOf(load') = Busy(r.calls)
  <2>1. \A k \in Loads : load'[k] # Nothing => k = l
    BY <1>4
  <2> QED BY <1>3, <1>4, <2>1, BusyAlone, ZenonT(60)
<1>6. \A k \in Loads : load'[k] # Nothing => LoadRight(book', cache', children', load'[k])
  BY <1>2, <1>4
<1>7. OneLoad'
  BY <1>4 DEF OneLoad
<1>8. ViewRight'
  <2>1. \A k \in Loads : load'[k] # Nothing => load'[k].stage # "frame"
    BY <1>4
  <2>2. view' # Nothing => \E s \in book'.spine : cache'[s] # Nothing /\ cache'[s] = view'.url
    BY <1>1 DEF ViewRight
  <2> QED BY <2>1, <2>2 DEF ViewRight
<1>9. Kept(book', blobs', cache', refCount', children', live', << >>, BusyNow')
  BY <1>2, <1>5, Zenon DEF BusyNow
<1>10. OrderlyInv'
  BY <1>1, <1>6, <1>7, <1>8, <1>9, OrderlyAfter
<1> QED BY <1>3, <1>4, <1>10

\* The file that waits for the innermost call.
LEMMA ParentIs ==
  ASSUME NEW b, BookRight(b), NEW c, NEW lists, NEW r, LoadRight(b, c, lists, r), r.calls # << >>
  PROVE  /\ Head(r.calls) = r.calls[1] /\ r.calls[1] \in CallType(b)
         /\ r.calls[1].href \in DOMAIN b.links /\ CallRight(b, c, lists, r.calls[1])
         /\ r.stage = "load"
         /\ Tail(r.calls) = << >> => Parent(r.calls[1]) = Root /\ r.calls[1].href = r.to /\ r.to \in b.spine
         /\ Tail(r.calls) # << >> =>
              LET p == r.calls[2].href IN
              /\ Parent(r.calls[1]) = p /\ p \in DOMAIN b.links /\ p # Root
              /\ r.calls[1].href \in ToSet(b.links[p]) /\ p # r.calls[1].href
              /\ c[p] = Nothing
<1> DEFINE calls == r.calls
           n == Len(calls)
<1>1. /\ calls \in Seq(CallType(b)) /\ n \in Nat /\ DOMAIN calls = 1 .. n
      /\ StackRight(b, calls)
      /\ \A i \in 1 .. n : calls[i] \in CallType(b) /\ CallRight(b, c, lists, calls[i])
  BY LoadFacts
<1>2. /\ Head(calls) = calls[1] /\ calls[1] \in CallType(b)
      /\ n \in Nat \ {0} /\ Len(Tail(calls)) = n - 1 /\ Tail(calls) \in Seq(CallType(b))
  BY <1>1, TailFacts
<1>3. 1 \in 1 .. n
  BY <1>2
<1>4. calls[1].href \in DOMAIN b.links
  BY <1>2 DEF CallType
<1>5. CallRight(b, c, lists, calls[1])
  BY <1>1, <1>3
<1>6. r.stage = "load" /\ calls[n].href = r.to
  BY Zenon DEF LoadRight
<1>7. r.to \in b.spine
  BY Zenon DEF LoadRight
<1>8. IF 1 = n THEN calls[1].parents = << >>
      ELSE /\ calls[1].parents # << >> /\ Last(calls[1].parents) = calls[1 + 1].href
           /\ calls[1].href \in ToSet(b.links[calls[1 + 1].href])
  BY <1>1, <1>3 DEF StackRight
<1>9. CASE Tail(calls) = << >>
  <2>1. Len(Tail(calls)) = 0
    <3>1. Len(<< >>) = 0
      OBVIOUS
    <3> QED BY ONLY <1>9, <3>1, Zenon
  <2>2. n = 1
    BY <1>2, <2>1
  <2>3. Parent(calls[1]) = Root
    BY <1>8, <2>2 DEF Parent
  <2> QED BY <1>2, <1>4, <1>5, <1>6, <1>7, <1>9, <2>2, <2>3
<1>10. CASE Tail(calls) # << >>
  <2>1. Len(Tail(calls)) # 0
    <3> DEFINE t == Tail(calls)
    <3>1. t \in Seq(CallType(b)) /\ t # << >>
      BY <1>2, <1>10
    <3> HIDE DEF t
    <3>2. Len(t) # 0
      BY <3>1
    <3> QED BY <3>2 DEF t
  <2>2. n # 1 /\ 2 \in 1 .. n /\ 1 # 2 /\ 1 + 1 = 2 /\ 2 > 1 /\ 1 # n
    <3>1. n \in Nat \ {0} /\ n - 1 # 0
      BY <1>2, <2>1
    <3> HIDE DEF n
    <3> QED BY <3>1
  <2>3. /\ Parent(calls[1]) = calls[2].href /\ calls[1].href \in ToSet(b.links[calls[2].href])
    BY <1>8, <2>2 DEF Parent
  <2>4. calls[2] \in CallType(b) /\ CallRight(b, c, lists, calls[2])
    BY <1>1, <2>2
  <2>5. calls[2].href \in DOMAIN b.links /\ calls[2].href # Root
    BY <2>4 DEF CallType, BookRight
  <2>6. calls[2].stage = "links"
    BY <1>1, <2>2 DEF StackRight
  <2>7. c[calls[2].href] = Nothing
    BY <2>4, <2>6 DEF CallRight
  <2>8. calls[2].href # calls[1].href
    BY <1>1, <1>3, <2>2, StackDistinct, Zenon
  <2> QED BY <1>2, <1>4, <1>5, <1>6, <1>10, <2>3, <2>5, <2>7, <2>8
<1> QED BY <1>9, <1>10

\* The innermost call of a load that is running.
LEMMA RunningFacts ==
  ASSUME NEW l, NEW stage, Running(l, stage)
  PROVE  /\ load[l] # Nothing /\ load[l].calls # << >>
         /\ Top(l) = Head(load[l].calls) /\ Top(l).stage = stage
BY DEF Running, Top

\* The calls that wait find what they must when the file of the next one gets a child.
LEMMA StillAdded ==
  ASSUME NEW b, BookRight(b), NEW c, NEW lists, NEW r, LoadRight(b, c, lists, r), r.calls # << >>,
         Tail(r.calls) # << >>, NEW c2, NEW lists2, NEW url, NEW p, p = r.calls[2].href,
         \A q \in DOMAIN b.links : q # r.calls[1].href /\ c[q] = Nothing => c2[q] = Nothing,
         \A q \in DOMAIN b.links : q # p => UrlsOf(c2, lists2[q]) = UrlsOf(c, lists[q]),
         UrlsOf(c2, lists2[p]) = UrlsOf(c, lists[p]) \union (IF url # Nothing THEN {url} ELSE {})
  PROVE  StillRight(b, c, lists, c2, lists2, r.calls, url)
<1> DEFINE calls == r.calls
           n == Len(calls)
<1>1. /\ calls \in Seq(CallType(b)) /\ n \in Nat /\ DOMAIN calls = 1 .. n
      /\ StackRight(b, calls)
      /\ \A i \in 1 .. n : calls[i] \in CallType(b) /\ CallRight(b, c, lists, calls[i])
  BY LoadFacts
<1>2. \A i, j \in 1 .. n : calls[i].href = calls[j].href => i = j
  BY <1>1, StackDistinct, Zenon
<1>3. ASSUME NEW i \in 2 .. n
      PROVE  /\ c2[calls[i].href] = Nothing
             /\ UrlsOf(c2, lists2[calls[i].href])
                 = UrlsOf(c, lists[calls[i].href]) \union (IF i = 2 /\ url # Nothing THEN {url} ELSE {})
  <2>1. i \in 1 .. n /\ 1 \in 1 .. n /\ i # 1 /\ i > 1
    <3>1. n \in Nat
      BY <1>1
    <3> HIDE DEF n
    <3> QED BY <3>1
  <2>2. calls[i].stage = "links" /\ calls[i] \in CallType(b) /\ CallRight(b, c, lists, calls[i])
    BY <1>1, <2>1 DEF StackRight
  <2>3. calls[i].href \in DOMAIN b.links /\ c[calls[i].href] = Nothing
    BY <2>2 DEF CallType, CallRight
  <2>4. calls[i].href # calls[1].href
    BY <1>2, <2>1
  <2>5. CASE i = 2
    BY <2>3, <2>4, <2>5
  <2>6. CASE i # 2
    <3>1. 2 \in 1 .. n
      <4>1. n \in Nat
        BY <1>1
      <4> HIDE DEF n
      <4> QED BY <2>6, <4>1
    <3>2. calls[i].href # p
      BY <1>2, <2>1, <2>6, <3>1
    <3> QED BY <2>3, <2>4, <2>6, <3>2
  <2> QED BY <2>5, <2>6
<1> QED BY <1>3 DEF StillRight

\* The innermost call returns: what must hold of the rest of the step.
LEMMA ReturnStep ==
  ASSUME BookRight(book), OrderlyInv, NEW l \in Loads, load[l] # Nothing, load[l].calls # << >>,
         NEW url \in Nat \union {Nothing}, Return(l, url), UNCHANGED <<book, index, view, failed>>,
         \A s \in book.spine : cache[s] # Nothing => cache'[s] = cache[s],
         Tail(load[l].calls) = << >> => (url # Nothing => url = cache'[load[l].calls[1].href]),
         Tail(load[l].calls) # << >> =>
           StillRight(book, cache, children, cache', children', load[l].calls, url),
         Kept(book, blobs', cache', refCount', children', live', << >>, Busy(Returned(load[l], url).calls))
  PROVE  /\ OrderlyInv' /\ GoesOn(l)
         /\ Tail(load[l].calls) = << >> => load'[l].calls = << >> /\ load'[l].url = url
         /\ Tail(load[l].calls) # << >> => load'[l].calls # << >>
<1> DEFINE r == load[l]
           r2 == Returned(r, url)
<1>1. LoadRight(book, cache, children, r) /\ load \in [Loads -> LoadType(book) \union {Nothing}]
  BY OrderlyFacts
<1>2. load' = [load EXCEPT ![l] = r2]
  BY Zenon DEF Return, Returned
<1>3. r.stage = "load" /\ r \in LoadType(book)
  BY <1>1, Zenon DEF LoadRight
<1>4. r2.stage = "load"
  BY <1>3 DEF Returned, LoadType
<1>5. LoadRight(book, cache', children', r2)
  <2> HIDE DEF r2
  <2>1. CASE Tail(r.calls) = << >>
    BY <1>1, <2>1, ReturnLast DEF r2
  <2>2. CASE Tail(r.calls) # << >>
    BY <1>1, <2>2, ReturnRight DEF r2
  <2> QED BY <2>1, <2>2
<1>6. /\ r2.to = r.to /\ r2.old = r.old
      /\ Tail(r.calls) = << >> => r2.calls = << >> /\ r2.url = url
      /\ Tail(r.calls) # << >> => r2.calls # << >>
  <2>1. CASE Tail(r.calls) = << >>
    BY <1>3, <2>1 DEF Returned, LoadType
  <2>2. CASE Tail(r.calls) # << >>
    <3> DEFINE rest == Tail(r.calls)
               x == [Head(rest) EXCEPT !.urls = @ \union (IF url = Nothing THEN {} ELSE {url})]
               calls2 == <<x>> \o Tail(rest)
    <3>1. r2 = [r EXCEPT !.calls = calls2]
      BY <2>2 DEF Returned
    <3>2. Tail(rest) \in Seq(CallType(book))
      <4>1. r.calls \in Seq(CallType(book))
        BY <1>3 DEF LoadType
      <4>2. rest \in Seq(CallType(book)) /\ rest # << >>
        BY <2>2, <4>1, TailFacts
      <4> HIDE DEF rest
      <4> QED BY <4>2, TailFacts
    <3> HIDE DEF rest, x
    <3>3. calls2 # << >>
      BY <3>2
    <3> HIDE DEF calls2, r2
    <3>4. r2.to = r.to /\ r2.old = r.old /\ r2.calls = calls2
      BY <1>3, <3>1 DEF LoadType
    <3> QED BY <2>2, <3>3, <3>4, SMTT(30)
  <2> QED BY <2>1, <2>2
<1> HIDE DEF r2
<1>7. StepKept(r2)
  BY <1>5, Zenon DEF StepKept, r2
<1>8. OrderlyInv' /\ load'[l] = r2 /\ r2 # Nothing
  BY <1>2, <1>3, <1>4, <1>7, StepOrderly
<1> QED BY <1>4, <1>6, <1>8 DEF GoesOn

\* In either case what was busy stays busy.
LEMMA KeepsBusy ==
  ASSUME NEW b, NEW c, NEW lists, NEW r, LoadRight(b, c, lists, r), r.calls # << >>,
         NEW url \in Nat \union {Nothing},
         Tail(r.calls) # << >> => \E c2, lists2 : StillRight(b, c, lists, c2, lists2, r.calls, url)
  PROVE  StaysBusy(r, Returned(r, url))
<1>1. CASE Tail(r.calls) = << >>
  BY <1>1, ReturnLastBusy
<1>2. CASE Tail(r.calls) # << >>
  <2>1. PICK c2, lists2 : StillRight(b, c, lists, c2, lists2, r.calls, url)
    BY <1>2
  <2> QED BY <1>2, <2>1, ReturnRight
<1> QED BY <1>1, <1>2

\* The URLs of a list that becomes longer.
LEMMA UrlsAppended ==
  ASSUME NEW b, NEW c, NEW lists \in ListsType(b), NEW p \in DOMAIN b.links \union {Root}, NEW h \in DOMAIN b.links
  PROVE  /\ UrlsOf(c, Appended(lists, p, h)[p]) = UrlsOf(c, lists[p]) \union {c[h]}
         /\ \A q \in DOMAIN b.links : q # p => Appended(lists, p, h)[q] = lists[q]
<1>1. lists[p] \in Seq(DOMAIN b.links) /\ Appended(lists, p, h)[p] = Append(lists[p], h)
  BY DEF Appended, ListsType
<1>2. ToSet(Append(lists[p], h)) = ToSet(lists[p]) \union {h}
  BY <1>1, AppendSet
<1>3. UrlsOf(c, Append(lists[p], h)) = UrlsOf(c, lists[p]) \union {c[h]}
  BY <1>2 DEF UrlsOf
<1> QED BY <1>1, <1>3 DEF Appended, ListsType

\* FromCache keeps the invariant: one list and one count more, or neither.
LEMMA FromCacheOrderly ==
  ASSUME BookRight(book), OrderlyInv, NEW l \in Loads, FromCache(l)
  PROVE  OrderlyInv' /\ GoesOn(l) /\ (Tail(load[l].calls) # << >> => load'[l].calls # << >>)
<1> DEFINE r == load[l]
           h == r.calls[1].href
           url == cache[h]
           p == r.calls[2].href
           H == DOMAIN book.links
           busy2 == Busy(Returned(r, url).calls)
<1>1. r # Nothing /\ r.calls # << >> /\ Top(l) = Head(r.calls) /\ Top(l).stage = "item"
  BY RunningFacts DEF FromCache
<1>2. /\ Kept(book, blobs, cache, refCount, children, live, << >>, Busy(r.calls))
      /\ LoadRight(book, cache, children, r)
  BY <1>1, OrderlyFacts
<1>3. /\ Top(l) = r.calls[1] /\ h \in H /\ r.calls[1].stage = "item"
      /\ Tail(r.calls) = << >> => Parent(r.calls[1]) = Root /\ h = r.to /\ r.to \in book.spine
      /\ Tail(r.calls) # << >> => /\ Parent(r.calls[1]) = p /\ p \in H /\ p # Root
                                  /\ h \in ToSet(book.links[p]) /\ p # h /\ cache[p] = Nothing
  BY <1>1, <1>2, ParentIs
<1>4. /\ cache[h] # Nothing /\ Ref(h, Parent(r.calls[1])) /\ Return(l, url)
      /\ UNCHANGED <<book, blobs, live, cache, index, view, started, failed>>
  BY <1>3, Zenon DEF FromCache
<1>5. /\ blobs \in Seq(SUBSET Nat) /\ cache \in [H -> (1 .. Len(blobs)) \union {Nothing}]
      /\ children \in ListsType(book) /\ Len(blobs) \in Nat
  <2>1. /\ blobs \in Seq(SUBSET Nat)
        /\ cache \in [DOMAIN book.links -> (1 .. Len(blobs)) \union {Nothing}]
        /\ children \in [DOMAIN book.links \union {Root} -> Seq(DOMAIN book.links)]
    BY <1>2, KeptFacts, Zenon
  <2>2. Len(blobs) \in Nat
    BY <2>1, SMTT(30)
  <2> QED BY <2>1, <2>2, Zenon DEF ListsType
<1>6. url \in Nat
  BY <1>3, <1>4, <1>5
<1>7. Tail(r.calls) # << >> => StillRight(book, cache, children, cache, children', r.calls, url)
  <2> HAVE Tail(r.calls) # << >>
  <2>1. \/ h \in ToSet(children[p]) /\ UNCHANGED children
        \/ children' = Appended(children, p, h)
    <3>1. Ref(h, p)
      BY <1>3, <1>4
    <3> HIDE DEF h, p
    <3> QED BY <3>1 DEF Ref, Appended
  <2>2. \A q \in H : q # p => children'[q] = children[q]
    BY <1>3, <1>5, <2>1, UrlsAppended, SMTT(30)
  <2>3. UrlsOf(cache, children'[p]) = UrlsOf(cache, children[p]) \union {url}
    <3>1. CASE h \in ToSet(children[p]) /\ UNCHANGED children
      BY <3>1 DEF UrlsOf
    <3>2. CASE children' = Appended(children, p, h)
      <4>1. p \in H \union {Root} /\ h \in H /\ children \in ListsType(book)
        BY <1>3, <1>5
      <4>2. UrlsOf(cache, Appended(children, p, h)[p]) = UrlsOf(cache, children[p]) \union {cache[h]}
        <5>1. children[p] \in Seq(H) /\ Appended(children, p, h)[p] = Append(children[p], h)
          BY <4>1, SMTT(30) DEF Appended, ListsType
        <5> HIDE DEF h, p, H
        <5>2. ToSet(Append(children[p], h)) = ToSet(children[p]) \union {h}
          BY <4>1, <5>1, AppendSet
        <5> QED BY <5>1, <5>2, SMTT(30) DEF UrlsOf
      <4> QED BY <3>2, <4>2
    <3> QED BY <2>1, <3>1, <3>2
  <2>4. UrlsOf(cache, children'[p]) = UrlsOf(cache, children[p]) \union (IF url # Nothing THEN {url} ELSE {})
    BY <1>4, <2>3
  <2>5. \A q \in H : q # p => UrlsOf(cache, children'[q]) = UrlsOf(cache, children[q])
    BY <2>2
  <2> HIDE DEF url
  <2> QED BY <1>1, <1>2, <2>4, <2>5, StillAdded
<1>8. /\ Busy(r.calls) \subseteq busy2
      /\ Tail(r.calls) # << >> => p \in busy2
  <2>1. r.calls[1].stage # "links"
    BY <1>3
  <2> HIDE DEF url
  <2>2. StaysBusy(r, Returned(r, url))
    BY <1>1, <1>2, <1>6, <1>7, KeepsBusy
  <2> QED BY <2>1, <2>2 DEF StaysBusy
<1> HIDE DEF busy2, url
<1>9. Kept(book, blobs, cache, refCount, children, live, << >>, busy2)
  BY <1>2, <1>8, KeptBusy
<1>10. Kept(book, blobs', cache', refCount', children', live', << >>, busy2)
  <2>1. CASE UNCHANGED <<refCount, children>>
    BY <1>4, <1>9, <2>1
  <2>2. CASE Tail(r.calls) = << >> /\ ~UNCHANGED <<refCount, children>>
    <3>1. /\ refCount' = [refCount EXCEPT ![h] = @ + 1] /\ children' = Appended(children, Root, h)
          /\ h \in book.spine
      BY <1>3, <1>4, <2>2 DEF Ref, Appended
    <3> HIDE DEF h
    <3>2. Kept(book, blobs, cache, refCount', children', live, << >>, busy2)
      BY <1>9, <3>1, KeptRoot
    <3> QED BY <1>4, <3>2
  <2>3. CASE Tail(r.calls) # << >> /\ ~UNCHANGED <<refCount, children>>
    <3>1. /\ refCount' = [refCount EXCEPT ![h] = @ + 1] /\ children' = Appended(children, p, h)
          /\ h \notin ToSet(children[p])
      BY <1>3, <1>4, <2>3 DEF Ref, Appended
    <3>2. p \in H /\ h \in ToSet(book.links[p]) /\ cache[p] = Nothing /\ p \in busy2 /\ cache[h] # Nothing
      BY <1>3, <1>4, <1>8, <2>3
    <3> HIDE DEF h, p, H
    <3>3. Kept(book, blobs, cache, refCount', children', live, << >>, busy2)
      BY <1>9, <3>1, <3>2, KeptRef DEF H
    <3> QED BY <1>4, <3>3
  <2> QED BY <2>1, <2>2, <2>3
<1>11. Tail(r.calls) = << >> => (url # Nothing => url = cache'[r.calls[1].href])
  BY <1>4 DEF url
<1>12. /\ Tail(r.calls) # << >> => StillRight(book, cache, children, cache', children', r.calls, url)
       /\ \A s \in book.spine : cache[s] # Nothing => cache'[s] = cache[s]
       /\ UNCHANGED <<book, index, view, failed>>
  BY <1>4, <1>7
<1> QED BY <1>1, <1>4, <1>6, <1>10, <1>11, <1>12, ReturnStep DEF busy2

\* A step that changes the calls alone.
LEMMA CallsStep ==
  ASSUME BookRight(book), OrderlyInv, NEW l \in Loads, load[l] # Nothing, load[l].calls # << >>,
         NEW calls, load' = [load EXCEPT ![l].calls = calls],
         LoadRight(book, cache, children, [load[l] EXCEPT !.calls = calls]),
         Busy(load[l].calls) \subseteq Busy(calls),
         UNCHANGED <<book, loader, index, view, failed>>
  PROVE  OrderlyInv' /\ GoesOn(l) /\ load'[l].calls = calls
<1> DEFINE r == load[l]
           r2 == [r EXCEPT !.calls = calls]
<1>1. /\ Kept(book, blobs, cache, refCount, children, live, << >>, Busy(r.calls))
      /\ LoadRight(book, cache, children, r)
      /\ load \in [Loads -> LoadType(book) \union {Nothing}]
  BY OrderlyFacts
<1>2. r.stage = "load" /\ r \in LoadType(book)
  BY <1>1, Zenon DEF LoadRight
<1>3. r2.calls = calls /\ r2.stage = "load"
  BY <1>2 DEF LoadType
<1>4. load' = [load EXCEPT ![l] = r2]
  BY <1>1
<1>5. LoadRight(book, cache, children, r2)
  OBVIOUS
<1> HIDE DEF r2
<1>6. Kept(book, blobs, cache, refCount, children, live, << >>, Busy(r2.calls))
  BY <1>1, <1>3, KeptBusy
<1>7. StepKept(r2)
  BY <1>5, <1>6, Zenon DEF StepKept, loader
<1>8. /\ UNCHANGED <<book, index, view, failed>>
      /\ \A s \in book.spine : cache[s] # Nothing => cache'[s] = cache[s]
  BY DEF loader
<1>9. OrderlyInv' /\ load'[l] = r2 /\ r2 # Nothing
  BY <1>2, <1>3, <1>4, <1>7, <1>8, StepOrderly
<1>10. r2.to = r.to /\ r2.old = r.old
  BY <1>2 DEF LoadType, r2
<1> QED BY <1>3, <1>9, <1>10 DEF GoesOn

\* The innermost call goes on.
LEMMA BecomesStep ==
  ASSUME BookRight(book), OrderlyInv, NEW l \in Loads, load[l] # Nothing, load[l].calls # << >>,
         NEW x \in CallType(book), Becomes(l, x), x.href = load[l].calls[1].href,
         x.parents = load[l].calls[1].parents, CallRight(book, cache, children, x),
         load[l].calls[1].stage = "links" => x.stage = "links",
         UNCHANGED <<book, loader, index, view, failed>>
  PROVE  OrderlyInv' /\ GoesOn(l) /\ load'[l].calls # << >>
<1> DEFINE r == load[l]
           calls == <<x>> \o Tail(r.calls)
<1>1. LoadRight(book, cache, children, r) /\ load \in [Loads -> LoadType(book) \union {Nothing}]
  BY OrderlyFacts
<1>2. /\ LoadRight(book, cache, children, [r EXCEPT !.calls = calls])
      /\ Busy(r.calls) \subseteq Busy(calls)
  <2> HIDE DEF r
  <2>1. /\ r.calls # << >> /\ x.href = r.calls[1].href /\ x.parents = r.calls[1].parents
        /\ r.calls[1].stage = "links" => x.stage = "links"
    BY DEF r
  <2> QED BY <1>1, <2>1, TopRight
<1>3. load' = [load EXCEPT ![l].calls = calls]
  BY Zenon DEF Becomes
<1>4. calls # << >>
  <2>1. Tail(r.calls) \in Seq(CallType(book))
    BY <1>1, LoadFacts, TailFacts
  <2> QED BY <2>1
<1> HIDE DEF calls
<1> QED BY <1>2, <1>3, <1>4, CallsStep

\* Read keeps it: a file without a URL that is not being rewritten has no children.
LEMMA ReadOrderly ==
  ASSUME BookRight(book), OrderlyInv, NEW l \in Loads, Read(l)
  PROVE  OrderlyInv' /\ GoesOn(l) /\ load'[l].calls # << >>
<1> DEFINE r == load[l]
           h == r.calls[1].href
           H == DOMAIN book.links
<1>1. r # Nothing /\ r.calls # << >> /\ Top(l) = Head(r.calls) /\ Top(l).stage = "item"
  BY RunningFacts DEF Read
<1>2. /\ Kept(book, blobs, cache, refCount, children, live, << >>, Busy(r.calls))
      /\ LoadRight(book, cache, children, r)
  BY <1>1, OrderlyFacts
<1>3. /\ Top(l) = r.calls[1] /\ h \in H /\ r.calls[1].stage = "item" /\ r.calls[1] \in CallType(book)
      /\ CallRight(book, cache, children, r.calls[1])
  BY <1>1, <1>2, ParentIs
<1>4. PICK stage \in {"text", "create"} : Becomes(l, [r.calls[1] EXCEPT !.stage = stage])
  BY <1>3 DEF Read
<1>5. cache[h] = Nothing /\ UNCHANGED <<book, loader, index, view, failed>>
  BY <1>3 DEF Read
<1> DEFINE x == [r.calls[1] EXCEPT !.stage = stage]
<1>6. /\ x \in CallType(book) /\ x.href = h /\ x.parents = r.calls[1].parents /\ x.stage = stage
      /\ x.todo = r.calls[1].todo /\ x.urls = r.calls[1].urls
  BY <1>3, <1>4 DEF CallType
<1>7. h \notin Busy(r.calls)
  <2>1. /\ r.calls \in Seq(CallType(book)) /\ DOMAIN r.calls = 1 .. Len(r.calls)
        /\ StackRight(book, r.calls) /\ Len(r.calls) \in Nat
    BY <1>2, LoadFacts
  <2>2. \A i, j \in 1 .. Len(r.calls) : r.calls[i].href = r.calls[j].href => i = j
    BY <2>1, StackDistinct, Zenon
  <2>3. 1 \in 1 .. Len(r.calls)
    BY <1>1, <2>1
  <2>4. ASSUME NEW i \in 1 .. Len(r.calls), r.calls[i].stage = "links", h = r.calls[i].href PROVE FALSE
    BY <1>3, <2>2, <2>3, <2>4
  <2> QED BY <2>1, <2>4 DEF Busy
<1>8. ~failed => children[h] = << >>
  BY <1>2, <1>3, <1>5, <1>7 DEF Kept, ListsRight
<1>9. Agrees(x.urls, UrlsOf(cache, children[h]))
  <2>1. r.calls[1].urls = {}
    BY <1>3 DEF CallRight
  <2>2. UrlsOf(cache, << >>) = {}
    BY EmptySeqSet DEF UrlsOf
  <2> QED BY <1>6, <1>8, <2>1, <2>2 DEF Agrees
<1>10. ToSet(x.todo) \subseteq ToSet(book.links[h])
  BY <1>3, <1>6, Zenon DEF CallRight
<1>11. Becomes(l, x)
  BY <1>4, SMTT(30)
<1> HIDE DEF x
<1>12. CallRight(book, cache, children, x)
  BY <1>5, <1>6, <1>9, <1>10 DEF CallRight
<1> QED BY <1>1, <1>3, <1>5, <1>6, <1>11, <1>12, BecomesStep

\* TextArrives keeps it, whether the file is missing or not,
LEMMA TextOrderly ==
  ASSUME BookRight(book), OrderlyInv, NEW l \in Loads, TextArrives(l)
  PROVE  /\ OrderlyInv' /\ GoesOn(l)
         /\ Tail(load[l].calls) # << >> \/ load[l].to \notin book.missing => load'[l].calls # << >>
<1> DEFINE r == load[l]
           h == r.calls[1].href
           H == DOMAIN book.links
<1>1. r # Nothing /\ r.calls # << >> /\ Top(l) = Head(r.calls) /\ Top(l).stage = "text"
  BY RunningFacts DEF TextArrives
<1>2. /\ Kept(book, blobs, cache, refCount, children, live, << >>, Busy(r.calls))
      /\ LoadRight(book, cache, children, r)
  BY <1>1, OrderlyFacts
<1>3. /\ Top(l) = r.calls[1] /\ h \in H /\ r.calls[1].stage = "text" /\ r.calls[1] \in CallType(book)
      /\ CallRight(book, cache, children, r.calls[1])
  BY <1>1, <1>2, ParentIs
<1>4. UNCHANGED <<book, loader, index, view, failed>>
  BY DEF TextArrives
<1>5. CASE h \in book.missing
  <2>1. Return(l, Nothing)
    BY <1>3, <1>5 DEF TextArrives
  <2>2. UNCHANGED <<blobs, live, cache, refCount, children>> /\ UNCHANGED <<book, index, view, failed>>
    BY <1>4 DEF loader
  <2>3. Tail(r.calls) # << >> => StillRight(book, cache, children, cache, children, r.calls, Nothing)
    <3> HAVE Tail(r.calls) # << >>
    <3>1. UrlsOf(cache, children[r.calls[2].href])
            = UrlsOf(cache, children[r.calls[2].href]) \union (IF Nothing # Nothing THEN {Nothing} ELSE {})
      OBVIOUS
    <3> QED BY <1>1, <1>2, <3>1, StillAdded
  <2>4. Busy(r.calls) \subseteq Busy(Returned(r, Nothing).calls)
    <3>1. r.calls[1].stage # "links"
      BY <1>3
    <3>2. StaysBusy(r, Returned(r, Nothing))
      BY <1>1, <1>2, <2>3, KeepsBusy
    <3> QED BY <3>1, <3>2 DEF StaysBusy
  <2>5. Kept(book, blobs, cache, refCount, children, live, << >>, Busy(Returned(r, Nothing).calls))
    BY <1>2, <2>4, KeptBusy
  <2>6. /\ Tail(r.calls) = << >> => (Nothing # Nothing => Nothing = cache'[r.calls[1].href])
        /\ \A s \in book.spine : cache[s] # Nothing => cache'[s] = cache[s]
    BY <2>2
  <2>7. Kept(book, blobs', cache', refCount', children', live', << >>, Busy(Returned(r, Nothing).calls))
    BY <2>2, <2>5, Zenon
  <2>8. Tail(r.calls) # << >> => StillRight(book, cache, children, cache', children', r.calls, Nothing)
    BY <2>2, <2>3, Zenon
  <2>9. /\ OrderlyInv' /\ GoesOn(l)
        /\ Tail(r.calls) # << >> => load'[l].calls # << >>
    BY <1>1, <2>1, <2>2, <2>6, <2>7, <2>8, ReturnStep
  <2>10. Tail(r.calls) = << >> => h = r.to
    BY <1>1, <1>2, ParentIs
  <2> QED BY <1>5, <2>9, <2>10
<1>6. CASE h \notin book.missing
  <2> DEFINE x == [r.calls[1] EXCEPT !.stage = "links", !.todo = book.links[h]]
  <2>1. Becomes(l, x)
    BY <1>3, <1>6 DEF TextArrives
  <2>2. book.links[h] \in Seq(H)
    BY <1>3, SMTT(30) DEF BookRight
  <2>3. /\ x \in CallType(book) /\ x.href = h /\ x.parents = r.calls[1].parents /\ x.stage = "links"
        /\ x.todo = book.links[h] /\ x.urls = r.calls[1].urls
    BY <1>3, <2>2 DEF CallType
  <2> HIDE DEF x
  <2>4. cache[h] = Nothing /\ Agrees(r.calls[1].urls, UrlsOf(cache, children[h]))
    BY <1>3 DEF CallRight
  <2>5. CallRight(book, cache, children, x)
    BY <2>3, <2>4 DEF CallRight
  <2> QED BY <1>1, <1>4, <2>1, <2>3, <2>5, BecomesStep
<1> QED BY <1>5, <1>6

\* and so do NextLink
LEMMA LinkOrderly ==
  ASSUME BookRight(book), OrderlyInv, NEW l \in Loads, NextLink(l)
  PROVE  OrderlyInv' /\ GoesOn(l) /\ load'[l].calls # << >>
<1> DEFINE r == load[l]
           top == r.calls[1]
           calls == <<Inner(top), Waits(top)>> \o Tail(r.calls)
<1>1. r # Nothing /\ r.calls # << >> /\ Top(l) = Head(r.calls) /\ Top(l).stage = "links"
  BY RunningFacts DEF NextLink
<1>2. LoadRight(book, cache, children, r) /\ load \in [Loads -> LoadType(book) \union {Nothing}]
  BY <1>1, OrderlyFacts
<1>3. Top(l) = top /\ top.stage = "links"
  BY <1>1, <1>2, ParentIs
<1>4. /\ top.todo # << >> /\ load' = [load EXCEPT ![l].calls = <<Inner(top), Waits(top)>> \o Tail(@)]
      /\ UNCHANGED <<book, loader, index, view, failed>>
  BY <1>3, Zenon DEF NextLink, Inner, Waits
<1>5. load' = [load EXCEPT ![l].calls = calls]
  BY <1>4, Zenon
<1>6. LoadRight(book, cache, children, [r EXCEPT !.calls = calls]) /\ Busy(r.calls) \subseteq Busy(calls)
  <2> HIDE DEF r
  <2> QED BY <1>1, <1>2, <1>3, <1>4, PushRight
<1>7. calls # << >>
  <2>1. Tail(r.calls) \in Seq(CallType(book))
    BY <1>1, <1>2, LoadFacts, TailFacts
  <2> QED BY <2>1
<1> HIDE DEF calls
<1> QED BY <1>1, <1>4, <1>5, <1>6, <1>7, CallsStep

\* and CreateURL,
LEMMA CreateOrderly ==
  ASSUME BookRight(book), OrderlyInv, NEW l \in Loads, CreateURL(l)
  PROVE  /\ OrderlyInv' /\ GoesOn(l)
         /\ Tail(load[l].calls) # << >> => load'[l].calls # << >>
         /\ Tail(load[l].calls) = << >> => load'[l].url # Nothing /\ load'[l].calls = << >>
<1> DEFINE r == load[l]
           h == r.calls[1].href
           p == r.calls[2].href
           H == DOMAIN book.links
           url == Len(blobs) + 1
           busy == Busy(r.calls)
           busy2 == Busy(Returned(r, url).calls)
<1>1. /\ r # Nothing /\ r.calls # << >> /\ Top(l) = Head(r.calls)
      /\ Top(l).stage = "create" \/ Top(l).stage = "links"
  BY RunningFacts DEF CreateURL
<1>2. /\ Kept(book, blobs, cache, refCount, children, live, << >>, busy)
      /\ LoadRight(book, cache, children, r)
  BY <1>1, OrderlyFacts
<1>3. /\ Top(l) = r.calls[1] /\ h \in H /\ r.calls[1] \in CallType(book)
      /\ CallRight(book, cache, children, r.calls[1])
      /\ Tail(r.calls) = << >> => Parent(r.calls[1]) = Root /\ h = r.to /\ r.to \in book.spine
      /\ Tail(r.calls) # << >> => /\ Parent(r.calls[1]) = p /\ p \in H /\ p # Root
                                  /\ h \in ToSet(book.links[p]) /\ p # h /\ cache[p] = Nothing
  BY <1>1, <1>2, ParentIs
<1>4. cache[h] = Nothing /\ Agrees(r.calls[1].urls, UrlsOf(cache, children[h]))
  BY <1>1, <1>3 DEF CallRight
<1>5. /\ blobs' = Append(blobs, r.calls[1].urls) /\ live' = live \union {url}
      /\ cache' = [cache EXCEPT ![h] = url] /\ refCount' = [refCount EXCEPT ![h] = 1]
      /\ children' = IF Parent(r.calls[1]) = Root THEN children
                     ELSE [children EXCEPT ![Parent(r.calls[1])] = Append(@, h)]
      /\ Return(l, url) /\ UNCHANGED <<book, index, view, failed>>
  BY <1>3, <1>4, Zenon DEF CreateURL
<1>6. /\ blobs \in Seq(SUBSET Nat) /\ cache \in [H -> (1 .. Len(blobs)) \union {Nothing}]
      /\ children \in ListsType(book) /\ Len(blobs) \in Nat
      /\ ListsRight(book, cache, children, busy)
  <2>1. /\ blobs \in Seq(SUBSET Nat)
        /\ cache \in [DOMAIN book.links -> (1 .. Len(blobs)) \union {Nothing}]
        /\ children \in [DOMAIN book.links \union {Root} -> Seq(DOMAIN book.links)]
        /\ ListsRight(book, cache, children, busy)
    BY <1>2, KeptFacts, Zenon
  <2>2. Len(blobs) \in Nat
    BY <2>1
  <2> QED BY <2>1, <2>2, Zenon DEF ListsType
<1>7. url \in Nat /\ url # Nothing
  BY <1>6, SMTT(30) DEF BookRight
<1> HIDE DEF url
<1>8. cache'[h] = url /\ \A q \in H : q # h => cache'[q] = cache[q]
  BY <1>3, <1>5, <1>6
<1>9. \A q \in H : h \notin ToSet(children[q])
  BY <1>4, <1>6 DEF ListsRight
<1>10. \A q \in H : UrlsOf(cache', children[q]) = UrlsOf(cache, children[q])
  <2> TAKE q \in H
  <2>1. \A k \in ToSet(children[q]) : k \in H /\ k # h
    <3>1. ToSet(children[q]) \subseteq H
      BY <1>6, ListSets DEF ListsType
    <3> QED BY <1>9, <3>1
  <2>2. \A k \in ToSet(children[q]) : cache'[k] = cache[k]
    BY <1>8, <2>1
  <2> QED BY <2>2 DEF UrlsOf
<1>11. ASSUME Tail(r.calls) # << >>
       PROVE  /\ children' = Appended(children, p, h)
              /\ StillRight(book, cache, children, cache', children', r.calls, url)
  <2>1. children' = Appended(children, p, h)
    BY <1>3, <1>5, <1>11 DEF Appended
  <2>2. p \in H /\ p # Root /\ children[p] \in Seq(H)
    BY <1>3, <1>6, <1>11 DEF ListsType
  <2>3. \A q \in H : q # p => children'[q] = children[q]
    BY <1>6, <2>1 DEF Appended, ListsType
  <2>4. children'[p] = Append(children[p], h)
    <3> HIDE DEF h, p
    <3> QED BY <1>6, <2>1, <2>2 DEF Appended, ListsType
  <2>5. UrlsOf(cache', children'[p]) = UrlsOf(cache, children[p]) \union {url}
    <3>1. ToSet(Append(children[p], h)) = ToSet(children[p]) \union {h}
      <4>1. h \in H
        BY <1>3
      <4> HIDE DEF h, p, H
      <4> QED BY <2>2, <4>1, AppendSet
    <3>2. UrlsOf(cache', children'[p]) = UrlsOf(cache', children[p]) \union {cache'[h]}
      <4> HIDE DEF h, p
      <4> QED BY <2>4, <3>1 DEF UrlsOf
    <3> QED BY <1>8, <1>10, <2>2, <3>2
  <2>6. UrlsOf(cache', children'[p]) = UrlsOf(cache, children[p]) \union (IF url # Nothing THEN {url} ELSE {})
    BY <1>7, <2>5
  <2>7. \A q \in H : q # p => UrlsOf(cache', children'[q]) = UrlsOf(cache, children[q])
    BY <1>10, <2>3
  <2>8. \A q \in H : q # h /\ cache[q] = Nothing => cache'[q] = Nothing
    BY <1>8
  <2>9. StillRight(book, cache, children, cache', children', r.calls, url)
    BY <1>1, <1>2, <1>11, <2>6, <2>7, <2>8, StillAdded
  <2> QED BY <2>1, <2>9
<1>12. /\ busy \subseteq busy2 \union {h}
       /\ Tail(r.calls) # << >> => p \in busy2
  <2>1. Tail(r.calls) # << >> => \E c2, lists2 : StillRight(book, cache, children, c2, lists2, r.calls, url)
    BY <1>11
  <2>2. url \in Nat \union {Nothing}
    BY <1>7
  <2>3. StaysBusy(r, Returned(r, url))
    BY <1>1, <1>2, <2>1, <2>2, KeepsBusy
  <2> QED BY <2>3 DEF StaysBusy
<1>13. Kept(book, blobs', cache', refCount', children', live', << >>, busy2)
  <2>1. CASE Tail(r.calls) = << >>
    <3>1. h \in book.spine /\ children' = children
      BY <1>3, <1>5, <2>1
    <3> HIDE DEF h, busy, busy2
    <3>2. Kept(book, Append(blobs, r.calls[1].urls), [cache EXCEPT ![h] = Len(blobs) + 1],
               [refCount EXCEPT ![h] = 1], children, live \union {Len(blobs) + 1}, << >>, busy2)
      BY <1>2, <1>4, <1>12, <3>1, KeptCreateRoot
    <3> QED BY <1>5, <3>1, <3>2, ZenonT(60) DEF url
  <2>2. CASE Tail(r.calls) # << >>
    <3>1. /\ p \in DOMAIN book.links /\ h \in ToSet(book.links[p]) /\ cache[p] = Nothing /\ p # h /\ p \in busy2
          /\ children' = Appended(children, p, h)
      BY <1>3, <1>11, <1>12, <2>2
    <3> HIDE DEF h, p, busy, busy2
    <3>2. Kept(book, Append(blobs, r.calls[1].urls), [cache EXCEPT ![h] = Len(blobs) + 1],
               [refCount EXCEPT ![h] = 1], Appended(children, p, h), live \union {Len(blobs) + 1}, << >>, busy2)
      BY <1>2, <1>4, <1>12, <3>1, KeptCreate
    <3> QED BY <1>5, <3>1, <3>2, Zenon DEF url
  <2> QED BY <2>1, <2>2
<1>14. \A s \in book.spine : cache[s] # Nothing => cache'[s] = cache[s]
  BY <1>4, <1>8 DEF BookRight
<1> HIDE DEF busy2
<1>15. /\ Tail(r.calls) = << >> => (url # Nothing => url = cache'[r.calls[1].href])
       /\ Tail(r.calls) # << >> => StillRight(book, cache, children, cache', children', r.calls, url)
       /\ url \in Nat \union {Nothing} /\ Return(l, url) /\ UNCHANGED <<book, index, view, failed>>
  BY <1>5, <1>7, <1>8, <1>11
<1>16. /\ OrderlyInv' /\ GoesOn(l)
       /\ Tail(r.calls) # << >> => load'[l].calls # << >>
       /\ Tail(r.calls) = << >> => load'[l].url = url /\ load'[l].calls = << >>
  BY <1>1, <1>13, <1>14, <1>15, ReturnStep DEF busy2
<1> QED BY <1>7, <1>16

\* and ReadFails, after which the lists may hold what no file has,
LEMMA FailsOrderly ==
  ASSUME BookRight(book), OrderlyInv, NEW l \in Loads, ReadFails(l)
  PROVE  OrderlyInv'
<1> DEFINE r == load[l]
           r2 == [r EXCEPT !.calls = << >>, !.to = Nothing]
<1>1. r # Nothing /\ r.calls # << >>
  BY DEF ReadFails, Running
<1>2. /\ Kept(book, blobs, cache, refCount, children, live, << >>, Busy(r.calls))
      /\ LoadRight(book, cache, children, r)
      /\ load \in [Loads -> LoadType(book) \union {Nothing}]
      /\ \A k \in Loads : k # l => load[k] = Nothing
      /\ index \in book.spine \union {Nothing} /\ ViewRight
  BY <1>1, OrderlyFacts
<1>3. r \in LoadType(book) /\ r.url = Nothing /\ r.stage = "load"
  BY <1>1, <1>2, Zenon DEF LoadRight
<1>4. /\ load' = [load EXCEPT ![l].calls = << >>, ![l].to = Nothing] /\ failed'
      /\ UNCHANGED <<book, blobs, live, cache, refCount, children, index, view>>
  BY DEF ReadFails, loader
<1>5. << >> \in Seq(CallType(book))
  BY EmptySeqSet
<1>6. /\ r2 \in LoadType(book) /\ r2.calls = << >> /\ r2.to = Nothing /\ r2.url = Nothing
      /\ r2.stage = "load"
  BY <1>3, <1>5 DEF LoadType
<1>7. load' = [load EXCEPT ![l] = r2]
  BY <1>2, <1>4
<1> HIDE DEF r2
<1>8. /\ load'[l] = r2 /\ \A k \in Loads : k # l => load'[k] = Nothing
      /\ load' \in [Loads -> LoadType(book) \union {Nothing}]
  BY <1>2, <1>6, <1>7
<1>9. Kept(book, blobs, cache, refCount, children, live, << >>, BusyNow)'
  <2>1. /\ LoaderType(book, blobs, cache, refCount, children) /\ Layered(blobs)
        /\ UrlsRight(book, blobs, cache, children, live)
        /\ ListsRight(book, cache, children, Busy(r.calls))
        /\ CountsRight(book, cache, refCount, children, << >>)
    BY <1>2, Zenon DEF Kept
  <2>2. UrlsRight(book, blobs, cache, children, live)'
    BY <1>4, <2>1 DEF UrlsRight, Agrees
  <2>3. ListsRight(book, cache, children, BusyNow)'
    BY <1>4, <2>1 DEF ListsRight
  <2> QED BY <1>4, <2>1, <2>2, <2>3 DEF Kept
<1>10. (\A k \in Loads : load[k] # Nothing => LoadRight(book, cache, children, load[k]))'
  <2>1. LoadRight(book, cache', children', r2)
    BY <1>6 DEF LoadRight, StackRight
  <2>2. \A k \in Loads : load'[k] # Nothing => k = l
    BY <1>8
  <2>3. \A i \in DOMAIN r2.calls : FALSE
    BY <1>6
  <2>4. book' = book /\ load'[l] = r2
    BY <1>4, <1>8
  <2> QED BY <2>1, <2>2, <2>3, <2>4 DEF LoadRight
<1>11. OneLoad'
  BY <1>4, <1>8 DEF OneLoad
<1>12. ViewRight'
  BY <1>2, <1>4, <1>6, <1>8 DEF ViewRight
<1>13. index' \in book'.spine \union {Nothing}
  BY <1>2, <1>4
<1> QED BY <1>9, <1>10, <1>11, <1>12, <1>13, Zenon DEF OrderlyInv

\* Init establishes it,
LEMMA InitOrderly ==
  ASSUME BookRight(book), Init
  PROVE  OrderlyInv
<1> DEFINE H == DOMAIN book.links
<1>1. /\ blobs = << >> /\ live = {} /\ cache = [h \in H |-> Nothing] /\ refCount = [h \in H |-> 0]
      /\ children = [h \in H \union {Root} |-> << >>] /\ load = [l \in Loads |-> Nothing]
      /\ index = Nothing /\ view = Nothing
  BY DEF Init, Href
<1>2. << >> \in Seq(H) /\ << >> \in Seq(SUBSET Nat) /\ ToSet(<< >>) = {}
  BY EmptySeqSet
<1>3. LoaderType(book, blobs, cache, refCount, children)
  BY <1>1, <1>2 DEF LoaderType
<1>4. Layered(blobs) /\ UrlsRight(book, blobs, cache, children, live)
  BY <1>1 DEF Layered, UrlsRight
<1>5. BusyNow = {}
  BY <1>1 DEF BusyNow, BusyOf
<1>6. \A q \in H : children[q] = << >>
  BY <1>1
<1>7. ListsRight(book, cache, children, BusyNow)
  BY <1>2, <1>6 DEF ListsRight
<1>8. CountsRight(book, cache, refCount, children, << >>)
  BY <1>1, <1>2, <1>6 DEF CountsRight, Holders, Places
<1>9. OneLoad /\ ViewRight /\ \A l \in Loads : load[l] = Nothing
  BY <1>1 DEF OneLoad, ViewRight
<1> QED BY <1>1, <1>3, <1>4, <1>7, <1>8, <1>9 DEF OrderlyInv, Kept

\* GoTo starts the only load,
LEMMA GoToOrderly ==
  ASSUME BookRight(book), OrderlyInv, NEW l \in Loads, NEW s \in book.spine, GoTo(l, s)
  PROVE  OrderlyInv' /\ load'[l] # Nothing
<1> DEFINE call == Call(s, << >>)
           r == [calls |-> <<call>>, to |-> s, old |-> index, url |-> Nothing, stage |-> "load"]
           H == DOMAIN book.links
<1>1. /\ \A k \in Loads : load[k] = Nothing
      /\ load' = [load EXCEPT ![l] = r] /\ s # index
      /\ UNCHANGED <<book, blobs, live, cache, refCount, children, index, view, failed>>
  BY DEF GoTo, BookRight, loader
<1>2. /\ Kept(book, blobs, cache, refCount, children, live, << >>, BusyNow)
      /\ load \in [Loads -> LoadType(book) \union {Nothing}]
      /\ index \in book.spine \union {Nothing} /\ ViewRight
  BY DEF OrderlyInv, OneLoad
<1>3. << >> \in Seq(H) /\ ToSet(<< >>) = {} /\ s \in H
  BY EmptySeqSet DEF BookRight
<1>4. /\ call \in CallType(book) /\ call.href = s /\ call.parents = << >> /\ call.stage = "item"
      /\ call.todo = << >> /\ call.urls = {}
  BY <1>3 DEF CallType, Call
<1> HIDE DEF call
<1>5. <<call>> \in Seq(CallType(book)) /\ Len(<<call>>) = 1 /\ DOMAIN <<call>> = {1} /\ <<call>>[1] = call /\ <<call>> # << >>
  BY <1>4
<1>6. /\ r \in LoadType(book) /\ r.calls = <<call>> /\ r.to = s /\ r.old = index /\ r.url = Nothing /\ r.stage = "load"
  BY <1>2, <1>5 DEF LoadType
<1> HIDE DEF r
<1>7. StackRight(book, r.calls)
  BY <1>4, <1>5, <1>6 DEF StackRight
<1>8. CallRight(book, cache, children, call)
  BY <1>3, <1>4 DEF CallRight
<1>9. LoadRight(book, cache, children, r)
  BY <1>1, <1>4, <1>5, <1>6, <1>7, <1>8 DEF LoadRight
<1>10. Busy(r.calls) = {}
  BY <1>4, <1>5, <1>6 DEF Busy
<1>11. r # Nothing
  BY <1>6 DEF BookRight
<1>12. /\ load'[l] = r /\ \A k \in Loads : k # l => load'[k] = Nothing
       /\ load' \in [Loads -> LoadType(book) \union {Nothing}]
  BY <1>1, <1>2, <1>6
<1>13. BusyNow' = {} /\ BusyNow = {}
  <2>1. BusyOf(load') = {}
    <3>1. \A k \in Loads : load'[k] # Nothing => k = l
      BY <1>12
    <3> QED BY <1>10, <1>11, <1>12, <3>1, BusyAlone, Zenon
  <2>2. BusyOf(load) = {}
    BY <1>1 DEF BusyOf
  <2> QED BY <2>1, <2>2 DEF BusyNow
<1>14. Kept(book', blobs', cache', refCount', children', live', << >>, BusyNow')
  BY <1>1, <1>2, <1>13, Zenon
<1>15. \A k \in Loads : load'[k] # Nothing => LoadRight(book', cache', children', load'[k])
  BY <1>1, <1>9, <1>12
<1>16. OneLoad'
  BY <1>1, <1>12 DEF OneLoad
<1>17. ViewRight'
  <2>1. \A k \in Loads : load'[k] # Nothing => load'[k].stage # "frame"
    BY <1>6, <1>12
  <2> QED BY <1>1, <1>2, <2>1 DEF ViewRight
<1>18. OrderlyInv'
  BY <1>1, <1>2, <1>14, <1>15, <1>16, <1>17, OrderlyAfter
<1> QED BY <1>11, <1>12, <1>18

\* Once the calls are done nothing is busy.
LEMMA DoneFacts ==
  ASSUME BookRight(book), OrderlyInv, NEW l \in Loads, load[l] # Nothing, load[l].calls = << >>
  PROVE  /\ Kept(book, blobs, cache, refCount, children, live, << >>, {})
         /\ load[l] \in LoadType(book) /\ load \in [Loads -> LoadType(book) \union {Nothing}]
         /\ \A k \in Loads : k # l => load[k] = Nothing
         /\ index \in book.spine \union {Nothing} /\ ViewRight
         /\ load[l].url # Nothing => load[l].to \in book.spine /\ load[l].url = cache[load[l].to]
         /\ load[l].stage = "frame" => load[l].url # Nothing
         /\ load[l].to \in book.spine \union {Nothing}
         /\ load[l].to # Nothing => load[l].to # load[l].old
<1>1. /\ Kept(book, blobs, cache, refCount, children, live, << >>, Busy(load[l].calls))
      /\ LoadRight(book, cache, children, load[l])
      /\ load \in [Loads -> LoadType(book) \union {Nothing}]
      /\ \A k \in Loads : k # l => load[k] = Nothing
      /\ index \in book.spine \union {Nothing} /\ ViewRight
  BY OrderlyFacts
<1>2. Busy(load[l].calls) = {}
  BY DEF Busy
<1>3. /\ load[l] \in LoadType(book) /\ (load[l].to # Nothing => load[l].to # load[l].old)
      /\ load[l].url # Nothing => load[l].to \in book.spine /\ load[l].url = cache[load[l].to]
      /\ load[l].stage = "frame" => load[l].url # Nothing
  BY <1>1 DEF LoadRight
<1>4. load[l].to \in book.spine \union {Nothing}
  BY <1>3 DEF LoadType
<1> QED BY <1>1, <1>2, <1>3, <1>4

\* Display shows a URL that is the section's own,
LEMMA DisplayOrderly ==
  ASSUME BookRight(book), OrderlyInv, NEW l \in Loads, Display(l)
  PROVE  OrderlyInv'
<1> DEFINE r == load[l]
<1>1. r # Nothing /\ r.stage = "load" /\ r.calls = << >> /\ index' = r.to
      /\ UNCHANGED <<book, blobs, live, cache, refCount, children, failed>>
  BY DEF Display, loader
<1>2. /\ Kept(book, blobs, cache, refCount, children, live, << >>, {})
      /\ r \in LoadType(book) /\ load \in [Loads -> LoadType(book) \union {Nothing}]
      /\ \A k \in Loads : k # l => load[k] = Nothing
      /\ ViewRight
      /\ r.url # Nothing => r.to \in book.spine /\ r.url = cache[r.to]
      /\ r.to \in book.spine \union {Nothing} /\ (r.to # Nothing => r.to # r.old)
  BY <1>1, DoneFacts
<1>4. CASE r.url = Nothing
  <2>1. load' = [load EXCEPT ![l] = Nothing] /\ UNCHANGED view
    BY <1>4 DEF Display
  <2>2. /\ \A k \in Loads : load'[k] = Nothing
        /\ load' \in [Loads -> LoadType(book) \union {Nothing}]
    BY <1>2, <2>1
  <2>3. BusyNow' = {}
    BY <2>2 DEF BusyNow, BusyOf
  <2>4. OneLoad' /\ ViewRight'
    BY <1>1, <1>2, <2>1, <2>2 DEF OneLoad, ViewRight
  <2>5. Kept(book', blobs', cache', refCount', children', live', << >>, BusyNow')
    BY <1>1, <1>2, <2>3, Zenon
  <2> QED BY <1>1, <1>2, <2>2, <2>4, <2>5, OrderlyAfter
<1>5. CASE r.url # Nothing
  <2> DEFINE r2 == [r EXCEPT !.stage = "frame"]
  <2>1. load' = [load EXCEPT ![l].stage = "frame"] /\ view' = [url |-> r.url, load |-> l, ready |-> FALSE]
    BY <1>5 DEF Display
  <2>2. /\ r2 \in LoadType(book) /\ r2.calls = << >> /\ r2.url = r.url /\ r2.to = r.to /\ r2.old = r.old
        /\ r2.stage = "frame"
    BY <1>1, <1>2 DEF LoadType
  <2>3. load' = [load EXCEPT ![l] = r2]
    BY <1>2, <2>1
  <2> HIDE DEF r2
  <2>4. /\ load'[l] = r2 /\ \A k \in Loads : k # l => load'[k] = Nothing
        /\ load' \in [Loads -> LoadType(book) \union {Nothing}]
    BY <1>2, <2>2, <2>3
  <2>5. r2 # Nothing
    BY <2>2 DEF BookRight
  <2>6. BusyNow' = {}
    <3>1. \A k \in Loads : load'[k] # Nothing => k = l
      BY <2>4
    <3>2. BusyOf(load') = Busy(r2.calls)
      BY <2>4, <2>5, <3>1, BusyAlone, Zenon
    <3>3. Busy(r2.calls) = {}
      BY <2>2 DEF Busy
    <3> QED BY <3>2, <3>3 DEF BusyNow
  <2>7. LoadRight(book, cache, children, r2)
    BY <1>2, <1>5, <2>2 DEF LoadRight, StackRight
  <2>8. OneLoad'
    BY <1>1, <2>4 DEF OneLoad
  <2>9. r.url \in Nat
    BY <1>2, <1>5 DEF LoadType
  <2>10. ViewRight'
    <3>1. view'.url = r.url /\ view' \in [url : Nat, load : Loads, ready : BOOLEAN]
      BY <2>1, <2>9
    <3>2. cache'[r.to] # Nothing /\ cache'[r.to] = view'.url /\ r.to \in book'.spine
      BY <1>1, <1>2, <1>5, <3>1
    <3>3. \A k \in Loads : load'[k] # Nothing => k = l /\ load'[k].url = r.url
      BY <2>2, <2>4
    <3> QED BY <3>1, <3>2, <3>3 DEF ViewRight
  <2>11. Kept(book', blobs', cache', refCount', children', live', << >>, BusyNow')
    BY <1>1, <1>2, <2>6, Zenon
  <2>12. \A k \in Loads : load'[k] # Nothing => LoadRight(book', cache', children', load'[k])
    BY <1>1, <2>4, <2>7
  <2> QED BY <1>1, <1>2, <2>8, <2>10, <2>11, <2>12, OrderlyAfter
<1> QED BY <1>4, <1>5

\* What unloading a section leaves.
LEMMA UnloadRight ==
  ASSUME BookRight(book), NEW old \in book.spine \union {Nothing}, Unload(old),
         Kept(book, blobs, cache, refCount, children, live, << >>, {})
  PROVE  /\ Kept(book, blobs', cache', refCount', children', live', << >>, {})
         /\ \A q \in book.spine : q # old => cache'[q] = cache[q] /\ refCount'[q] = refCount[q]
         /\ old # Nothing => (cache[old] = Nothing \/ refCount[old] = 1 => cache'[old] = Nothing)
         /\ blobs' = blobs
<1>1. CASE old = Nothing
  <2>1. UNCHANGED <<blobs, live, cache, refCount, children>>
    BY <1>1 DEF Unload, loader
  <2>2. Kept(book, blobs', cache', refCount', children', live', << >>, {})
    BY <2>1, Zenon
  <2> QED BY <1>1, <2>1, <2>2
<1>2. CASE old # Nothing
  <2>1. PICK s : /\ s = Unref(old) /\ cache' = s.cache /\ refCount' = s.count /\ children' = s.children
                 /\ live' = s.live /\ UNCHANGED blobs
    BY <1>2, Zenon DEF Unload
  <2>2. /\ LoopRight(book, blobs, cache, refCount, old, s) /\ s.todo = << >>
        /\ cache[old] = Nothing \/ refCount[old] = 1 => s.cache[old] = Nothing
    BY <1>2, <2>1, UnrefRight
  <2>3. Kept(book, blobs, s.cache, s.count, s.children, s.live, << >>, {})
    BY <2>2 DEF LoopRight
  <2>4. \A q \in book.spine : q # old => s.cache[q] = cache[q] /\ s.count[q] = refCount[q]
    BY <2>2, Zenon DEF LoopRight
  <2> QED BY <2>1, <2>2, <2>3, <2>4
<1> QED BY <1>1, <1>2

\* and FrameLoads unloads another section than the one on the screen.
LEMMA FrameOrderly ==
  ASSUME BookRight(book), OrderlyInv, NEW l \in Loads, FrameLoads(l)
  PROVE  OrderlyInv'
<1> DEFINE r == load[l]
<1>1. /\ r # Nothing /\ r.stage = "frame" /\ view' = [view EXCEPT !.ready = TRUE]
      /\ Unload(r.old) /\ load' = [load EXCEPT ![l] = Nothing]
      /\ UNCHANGED <<book, index, failed>>
  BY DEF FrameLoads
<1>2. r.calls = << >>
  <2>1. LoadRight(book, cache, children, r)
    BY <1>1, OrderlyFacts
  <2> QED BY <1>1, <2>1 DEF LoadRight
<1>3. /\ Kept(book, blobs, cache, refCount, children, live, << >>, {})
      /\ r \in LoadType(book) /\ load \in [Loads -> LoadType(book) \union {Nothing}]
      /\ \A k \in Loads : k # l => load[k] = Nothing
      /\ index \in book.spine \union {Nothing} /\ ViewRight
      /\ r.url # Nothing /\ r.url = cache[r.to]
      /\ r.to \in book.spine /\ r.to # r.old
  BY <1>1, <1>2, DoneFacts DEF BookRight
<1>4. r.old \in book.spine \union {Nothing}
  BY <1>3 DEF LoadType
<1>5. /\ Kept(book, blobs', cache', refCount', children', live', << >>, {})
      /\ cache'[r.to] = cache[r.to]
  BY <1>1, <1>3, <1>4, UnloadRight
<1>6. view \in [url : Nat, load : Loads, ready : BOOLEAN] /\ view.url = r.url
  BY <1>1, <1>3 DEF ViewRight
<1>7. view'.url = r.url
  BY <1>1, <1>6
<1>8. /\ \A k \in Loads : load'[k] = Nothing
      /\ load' \in [Loads -> LoadType(book) \union {Nothing}]
  BY <1>1, <1>3
<1>9. BusyNow' = {}
  BY <1>8 DEF BusyNow, BusyOf
<1>10. OneLoad'
  BY <1>1, <1>8 DEF OneLoad
<1>11. ViewRight'
  BY <1>1, <1>3, <1>5, <1>7, <1>8 DEF ViewRight
<1>12. Kept(book', blobs', cache', refCount', children', live', << >>, BusyNow')
  BY <1>1, <1>5, <1>9, Zenon
<1> QED BY <1>1, <1>3, <1>8, <1>10, <1>11, <1>12, OrderlyAfter

\* Every step of the reader of an orderly book keeps OrderlyInv.
LEMMA OrderlyStep ==
  ASSUME BookRight(book), OrderlyInv, Next
  PROVE  OrderlyInv'
<1>1. PICK l \in Loads :
        \/ \E s \in book.spine : GoTo(l, s)
        \/ FromCache(l) \/ Read(l) \/ TextArrives(l) \/ ReadFails(l) \/ NextLink(l) \/ CreateURL(l)
        \/ Display(l) \/ FrameLoads(l)
  BY Zenon DEF Next
<1>2. CASE \E s \in book.spine : GoTo(l, s)
  BY <1>2, GoToOrderly
<1>3. CASE FromCache(l)
  BY <1>3, FromCacheOrderly
<1>4. CASE Read(l)
  BY <1>4, ReadOrderly
<1>5. CASE TextArrives(l)
  BY <1>5, TextOrderly
<1>6. CASE NextLink(l)
  BY <1>6, LinkOrderly
<1>7. CASE CreateURL(l)
  BY <1>7, CreateOrderly
<1>8. CASE Display(l)
  BY <1>8, DisplayOrderly
<1>9. CASE FrameLoads(l)
  BY <1>9, FrameOrderly
<1>10. CASE ReadFails(l)
  BY <1>10, FailsOrderly
<1> QED BY <1>1, <1>2, <1>3, <1>4, <1>5, <1>6, <1>7, <1>8, <1>9, <1>10

\* The parts of PlainInv for the load under way.
LEMMA PlainFacts ==
  ASSUME OrderlyInv, PlainInv, NEW l \in Loads, load[l] # Nothing
  PROVE  /\ \A s \in book.spine : cache[s] # Nothing =>
              refCount[s] = 1 /\ (s = load[l].old \/ (s = load[l].to /\ load[l].calls = << >>))
         /\ load[l].stage = "load" => index = load[l].old
         /\ load[l].stage = "frame" => index = load[l].to
         /\ load[l].calls = << >> => load[l].url # Nothing
BY DEF PlainInv, Cached

\* The load under way goes on: a section gets a URL when the last of the calls returns.
LEMMA PlainStep ==
  ASSUME BookRight(book), OrderlyInv, PlainInv, NEW l \in Loads,
         load[l] # Nothing, load[l].calls # << >>, GoesOn(l), OrderlyInv', UNCHANGED <<book, index>>,
         \A s \in book.spine : cache'[s] # Nothing =>
           \/ cache[s] # Nothing /\ refCount'[s] = refCount[s]
           \/ s = load[l].to /\ load'[l].calls = << >> /\ refCount'[s] = 1,
         load'[l].calls = << >> => load'[l].url # Nothing
  PROVE  PlainInv'
<1>1. /\ \A s \in book.spine : cache[s] # Nothing => refCount[s] = 1 /\ s = load[l].old
      /\ load[l].stage = "load" => index = load[l].old
  BY PlainFacts
<1>2. load[l].stage = "load"
  <2>1. LoadRight(book, cache, children, load[l])
    BY OrderlyFacts
  <2> QED BY <2>1, Zenon DEF LoadRight
<1>3. /\ load'[l] # Nothing /\ load'[l].to = load[l].to /\ load'[l].old = load[l].old
      /\ load'[l].stage = "load"
  BY DEF GoesOn
<1>4. \A k \in Loads : load'[k] # Nothing => k = l
  BY <1>3 DEF OrderlyInv, OneLoad
<1>5. \A s \in book'.spine : cache'[s] # Nothing =>
        refCount'[s] = 1 /\ (s = load'[l].old \/ (s = load'[l].to /\ load'[l].calls = << >>))
  BY <1>1, <1>3
<1> QED BY <1>1, <1>2, <1>3, <1>4, <1>5 DEF PlainInv, Cached

\* FromCache counts no section,
LEMMA FromCachePlain ==
  ASSUME BookRight(book), OrderlyInv, PlainInv, NEW l \in Loads, FromCache(l)
  PROVE  PlainInv'
<1> DEFINE r == load[l]
           h == r.calls[1].href
           p == r.calls[2].href
<1>1. r # Nothing /\ r.calls # << >> /\ Top(l) = Head(r.calls)
  BY RunningFacts DEF FromCache
<1>2. LoadRight(book, cache, children, r)
  BY <1>1, OrderlyFacts
<1>3. /\ Top(l) = r.calls[1] /\ h \in DOMAIN book.links
      /\ Tail(r.calls) = << >> => h = r.to /\ r.to \in book.spine
      /\ Tail(r.calls) # << >> => p \in DOMAIN book.links /\ h \in ToSet(book.links[p])
  BY <1>1, <1>2, ParentIs, SMTT(30)
<1>4. cache[h] # Nothing /\ Ref(h, Parent(Top(l))) /\ UNCHANGED <<book, index, cache>>
  BY <1>3 DEF FromCache
<1>5. Tail(r.calls) # << >>
  <2>1. \A s \in book.spine : cache[s] # Nothing => s = r.old
    BY <1>1, PlainFacts
  <2>2. r.to # Nothing => r.to # r.old
    BY <1>2 DEF LoadRight
  <2> QED BY <1>3, <1>4, <2>1, <2>2 DEF BookRight
<1>6. OrderlyInv' /\ GoesOn(l) /\ load'[l].calls # << >>
  BY <1>5, FromCacheOrderly
<1>7. h \notin book.spine
  BY <1>3, <1>5 DEF BookRight
<1>8. refCount \in [DOMAIN book.links -> Nat]
  <2>1. Kept(book, blobs, cache, refCount, children, live, << >>, Busy(r.calls))
    BY <1>1, OrderlyFacts
  <2> QED BY <2>1, KeptFacts, Zenon
<1>9. \A s \in book.spine : refCount'[s] = refCount[s]
  <2>1. refCount' = refCount \/ refCount' = [refCount EXCEPT ![h] = @ + 1]
    BY <1>4 DEF Ref
  <2> HIDE DEF h
  <2> QED BY <1>7, <1>8, <2>1 DEF BookRight
<1> QED BY <1>1, <1>4, <1>6, <1>9, PlainStep

\* Read, TextArrives and NextLink count nothing,
LEMMA CallsPlain ==
  ASSUME BookRight(book), book \in PlainBooks, OrderlyInv, PlainInv, NEW l \in Loads,
         Read(l) \/ TextArrives(l) \/ NextLink(l)
  PROVE  PlainInv'
<1>1. load[l] # Nothing /\ load[l].calls # << >>
  BY RunningFacts DEF Read, TextArrives, NextLink
<1>2. UNCHANGED <<book, index, cache, refCount>>
  BY DEF Read, TextArrives, NextLink, loader
<1>3. load[l].to \notin book.missing
  <2>1. load[l].to \in book.spine
    BY <1>1, OrderlyFacts, Zenon DEF LoadRight
  <2> QED BY <2>1 DEF PlainBooks
<1>4. OrderlyInv' /\ GoesOn(l) /\ load'[l].calls # << >>
  <2>1. CASE Read(l)
    BY <2>1, ReadOrderly
  <2>2. CASE TextArrives(l)
    BY <1>3, <2>2, TextOrderly
  <2>3. CASE NextLink(l)
    BY <2>3, LinkOrderly
  <2> QED BY <2>1, <2>2, <2>3
<1> QED BY <1>1, <1>2, <1>4, PlainStep

\* CreateURL caches the section to be shown,
LEMMA CreatePlain ==
  ASSUME BookRight(book), OrderlyInv, PlainInv, NEW l \in Loads, CreateURL(l)
  PROVE  PlainInv'
<1> DEFINE r == load[l]
           h == r.calls[1].href
           p == r.calls[2].href
           H == DOMAIN book.links
<1>1. r # Nothing /\ r.calls # << >> /\ Top(l) = Head(r.calls)
  BY RunningFacts DEF CreateURL
<1>2. /\ LoadRight(book, cache, children, r)
      /\ Kept(book, blobs, cache, refCount, children, live, << >>, Busy(r.calls))
  BY <1>1, OrderlyFacts
<1>3. /\ Top(l) = r.calls[1] /\ h \in H
      /\ Tail(r.calls) = << >> => h = r.to /\ r.to \in book.spine
      /\ Tail(r.calls) # << >> => p \in H /\ h \in ToSet(book.links[p])
  BY <1>1, <1>2, ParentIs
<1>4. /\ cache' = [cache EXCEPT ![h] = Len(blobs) + 1] /\ refCount' = [refCount EXCEPT ![h] = 1]
      /\ UNCHANGED <<book, index>>
  BY <1>3, Zenon DEF CreateURL
<1>5. /\ OrderlyInv' /\ GoesOn(l)
      /\ Tail(load[l].calls) # << >> => load'[l].calls # << >>
      /\ Tail(load[l].calls) = << >> => load'[l].url # Nothing /\ load'[l].calls = << >>
  BY CreateOrderly
<1>6. cache \in [H -> (1 .. Len(blobs)) \union {Nothing}] /\ refCount \in [H -> Nat]
  BY <1>2, KeptFacts, Zenon
<1>7. /\ \A s \in H : s # h => cache'[s] = cache[s] /\ refCount'[s] = refCount[s]
      /\ refCount'[h] = 1
  <2> HIDE DEF h
  <2> QED BY <1>3, <1>4, <1>6
<1>8. Tail(r.calls) # << >> => h \notin book.spine
  BY <1>3 DEF BookRight
<1>9. ASSUME NEW s \in book.spine, cache'[s] # Nothing
      PROVE  \/ cache[s] # Nothing /\ refCount'[s] = refCount[s]
             \/ s = load[l].to /\ load'[l].calls = << >> /\ refCount'[s] = 1
  <2>1. CASE s = h
    BY <1>3, <1>5, <1>7, <1>8, <2>1
  <2>2. CASE s # h
    BY <1>7, <1>9, <2>2 DEF BookRight
  <2> QED BY <2>1, <2>2
<1>10. load'[l].calls = << >> => load'[l].url # Nothing
  BY <1>5
<1> QED BY <1>1, <1>4, <1>5, <1>9, <1>10, PlainStep

\* GoTo starts with the section shown as the only one,
LEMMA GoToPlain ==
  ASSUME BookRight(book), OrderlyInv, PlainInv, NEW l \in Loads, NEW s \in book.spine, GoTo(l, s)
  PROVE  PlainInv'
<1>1. /\ \A k \in Loads : load[k] = Nothing
      /\ load' = [load EXCEPT ![l] = [calls |-> <<Call(s, << >>)>>, to |-> s, old |-> index,
                                      url |-> Nothing, stage |-> "load"]]
      /\ UNCHANGED <<book, cache, refCount, index>>
  BY DEF GoTo, BookRight, loader
<1>2. /\ OrderlyInv' /\ load'[l] # Nothing
      /\ load \in [Loads -> LoadType(book) \union {Nothing}]
  BY GoToOrderly DEF OrderlyInv, OneLoad
<1>3. \A q \in book.spine : cache[q] # Nothing => refCount[q] = 1 /\ q = index
  BY <1>1 DEF PlainInv, Cached
<1>4. /\ load'[l].calls # << >> /\ load'[l].old = index /\ load'[l].to = s /\ load'[l].stage = "load"
      /\ \A k \in Loads : k # l => load'[k] = Nothing
  <2> DEFINE r == [calls |-> <<Call(s, << >>)>>, to |-> s, old |-> index, url |-> Nothing, stage |-> "load"]
  <2>1. load'[l] = r
    BY <1>1, <1>2
  <2>2. r.calls # << >> /\ r.old = index /\ r.to = s /\ r.stage = "load"
    OBVIOUS
  <2>3. \A k \in Loads : k # l => load'[k] = Nothing
    BY <1>1, <1>2
  <2> QED BY <2>1, <2>2, <2>3
<1> QED BY <1>1, <1>2, <1>3, <1>4 DEF PlainInv, Cached

\* Display makes it the one before,
LEMMA DisplayPlain ==
  ASSUME BookRight(book), OrderlyInv, PlainInv, NEW l \in Loads, Display(l)
  PROVE  PlainInv'
<1> DEFINE r == load[l]
<1>1. /\ r # Nothing /\ r.stage = "load" /\ r.calls = << >> /\ index' = r.to
      /\ UNCHANGED <<book, cache, refCount>>
  BY DEF Display, loader
<1>2. /\ r.url # Nothing
      /\ \A s \in book.spine : cache[s] # Nothing => refCount[s] = 1 /\ (s = r.old \/ s = r.to)
  BY <1>1, PlainFacts
<1>3. load' = [load EXCEPT ![l].stage = "frame"]
  BY <1>2 DEF Display
<1>4. /\ r \in LoadType(book) /\ load \in [Loads -> LoadType(book) \union {Nothing}]
      /\ \A k \in Loads : k # l => load[k] = Nothing
  BY <1>1, DoneFacts
<1> DEFINE r2 == [r EXCEPT !.stage = "frame"]
<1>5. /\ r2 \in LoadType(book) /\ r2.calls = << >> /\ r2.url = r.url /\ r2.to = r.to /\ r2.old = r.old
      /\ r2.stage = "frame"
  BY <1>1, <1>4 DEF LoadType
<1>6. load' = [load EXCEPT ![l] = r2]
  BY <1>3, <1>4
<1> HIDE DEF r2
<1>7. load'[l] = r2 /\ \A k \in Loads : k # l => load'[k] = Nothing
  BY <1>4, <1>6
<1>8. r2 # Nothing
  BY <1>5 DEF BookRight
<1> QED BY <1>1, <1>2, <1>5, <1>7, <1>8 DEF PlainInv, Cached

\* and FrameLoads takes it away.
LEMMA FramePlain ==
  ASSUME BookRight(book), OrderlyInv, PlainInv, NEW l \in Loads, FrameLoads(l)
  PROVE  PlainInv'
<1> DEFINE r == load[l]
<1>1. /\ r # Nothing /\ r.stage = "frame" /\ view' = [view EXCEPT !.ready = TRUE]
      /\ Unload(r.old) /\ load' = [load EXCEPT ![l] = Nothing]
      /\ UNCHANGED <<book, index, failed>>
  BY DEF FrameLoads
<1>2. r.calls = << >>
  <2>1. LoadRight(book, cache, children, r)
    BY <1>1, OrderlyFacts
  <2> QED BY <1>1, <2>1 DEF LoadRight
<1>3. /\ Kept(book, blobs, cache, refCount, children, live, << >>, {})
      /\ r \in LoadType(book) /\ load \in [Loads -> LoadType(book) \union {Nothing}]
      /\ \A k \in Loads : k # l => load[k] = Nothing
      /\ ViewRight /\ r.url = cache[r.to]
      /\ r.to \in book.spine /\ r.to # r.old
  BY <1>1, <1>2, DoneFacts DEF BookRight
<1>4. r.old \in book.spine \union {Nothing}
  BY <1>3 DEF LoadType
<1>5. /\ \A q \in book.spine : q # r.old => cache'[q] = cache[q] /\ refCount'[q] = refCount[q]
      /\ r.old # Nothing => (cache[r.old] = Nothing \/ refCount[r.old] = 1 => cache'[r.old] = Nothing)
  BY <1>1, <1>3, <1>4, UnloadRight
<1>6. /\ \A s \in book.spine : cache[s] # Nothing => refCount[s] = 1 /\ (s = r.old \/ s = r.to)
      /\ index = r.to
  BY <1>1, PlainFacts
<1>7. view'.url = cache'[r.to]
  <2>1. view \in [url : Nat, load : Loads, ready : BOOLEAN] /\ view.url = r.url
    BY <1>1, <1>3 DEF ViewRight
  <2> QED BY <1>1, <1>3, <1>5, <2>1
<1>8. \A k \in Loads : load'[k] = Nothing
  BY <1>1, <1>3
<1>9. Nothing \notin book.spine
  BY DEF BookRight
<1>10. \A s \in book.spine : cache'[s] # Nothing => refCount'[s] = 1 /\ s = r.to
  <2> TAKE s \in book.spine
  <2>1. CASE s = r.old
    BY <1>5, <1>6, <1>9, <2>1
  <2>2. CASE s # r.old
    BY <1>5, <1>6, <2>2
  <2> QED BY <2>1, <2>2
<1> QED BY <1>1, <1>3, <1>6, <1>7, <1>8, <1>9, <1>10 DEF PlainInv, Cached

\* Every step of the reader of a plain book keeps PlainInv.
LEMMA PlainNext ==
  ASSUME BookRight(book), book \in PlainBooks, OrderlyInv, PlainInv, Next, ~failed'
  PROVE  PlainInv'
<1>1. PICK l \in Loads :
        \/ \E s \in book.spine : GoTo(l, s)
        \/ FromCache(l) \/ Read(l) \/ TextArrives(l) \/ ReadFails(l) \/ NextLink(l) \/ CreateURL(l)
        \/ Display(l) \/ FrameLoads(l)
  BY Zenon DEF Next
<1>2. CASE \E s \in book.spine : GoTo(l, s)
  BY <1>2, GoToPlain
<1>3. CASE FromCache(l)
  BY <1>3, FromCachePlain
<1>4. CASE Read(l) \/ TextArrives(l) \/ NextLink(l)
  BY <1>4, CallsPlain
<1>5. CASE CreateURL(l)
  BY <1>5, CreatePlain
<1>6. CASE Display(l)
  BY <1>6, DisplayPlain
<1>7. CASE FrameLoads(l)
  BY <1>7, FramePlain
<1>8. ~ReadFails(l)
  BY DEF ReadFails
<1> QED BY <1>1, <1>2, <1>3, <1>4, <1>5, <1>6, <1>7, <1>8

\* What every URL needs, up to the m-th one.
NeedsOf(bl, g, u) == {u} \union UNION {g[v] : v \in bl[u]}
IsNeeds(g, bl, m) == g = [u \in 1 .. m |-> NeedsOf(bl, g, u)]

\* What it says of one URL.
LEMMA NeedsAt ==
  ASSUME NEW g, NEW bl, NEW m, IsNeeds(g, bl, m)
  PROVE  \A u \in 1 .. m : g[u] = NeedsOf(bl, g, u)
BY SMT DEF IsNeeds

\* There is such a function: a URL needs earlier ones only.
LEMMA NeedsExists ==
  ASSUME NEW bl \in Seq(SUBSET Nat), Layered(bl), NEW m \in 0 .. Len(bl)
  PROVE  \E g : IsNeeds(g, bl, m)
<1> DEFINE n == Len(bl)
           B == {i \in 0 .. n : ~\E g : IsNeeds(g, bl, i)}
<1> SUFFICES ASSUME B # {} PROVE FALSE
  OBVIOUS
<1>0. n \in Nat /\ DOMAIN bl = 1 .. n
  OBVIOUS
<1>1. PICK k \in B : \A x \in B : k <= x
  <2>1. B \in SUBSET Nat
    BY <1>0
  <2> HIDE DEF B
  <2> QED BY <2>1, LeastNatural
<1> HIDE DEF n
<1>2. k # 0
  <2> DEFINE g == [u \in 1 .. 0 |-> {}]
  <2>1. g = [u \in 1 .. 0 |-> NeedsOf(bl, g, u)]
    OBVIOUS
  <2> HIDE DEF g
  <2>2. \E f : IsNeeds(f, bl, 0)
    BY <2>1 DEF IsNeeds
  <2> QED BY <1>1, <2>2
<1>3. k \in Nat /\ k - 1 \in Nat /\ k - 1 < k /\ k - 1 \in 0 .. n /\ k \in 1 .. n
  BY <1>0, <1>1, <1>2
<1>4. PICK g : IsNeeds(g, bl, k - 1)
  <2>1. k - 1 \notin B
    BY <1>1, <1>3
  <2> QED BY <1>3, <2>1
<1>5. \A u \in 1 .. (k - 1) : g[u] = NeedsOf(bl, g, u)
  BY <1>4, NeedsAt
<1> DEFINE f == [u \in 1 .. k |-> IF u = k THEN NeedsOf(bl, g, k) ELSE g[u]]
<1>6. \A u \in 1 .. (k - 1) : f[u] = g[u] /\ u \in 1 .. k /\ u \in 1 .. n
  <2>1. \A u \in 1 .. (k - 1) : u \in 1 .. k /\ u \in 1 .. n /\ u # k
    BY <1>0, <1>3
  <2> QED BY <2>1
<1>7. f[k] = NeedsOf(bl, g, k) /\ f = [u \in 1 .. k |-> f[u]]
  BY <1>3
<1> HIDE DEF f
<1>8. ASSUME NEW u \in 1 .. k PROVE f[u] = NeedsOf(bl, f, u)
  <2>1. u \in 1 .. n /\ \A v \in 1 .. (u - 1) : v \in 1 .. (k - 1)
    BY <1>0, <1>3
  <2>2. bl[u] \subseteq 1 .. (u - 1)
    BY <1>0, <2>1 DEF Layered
  <2>3. \A v \in bl[u] : f[v] = g[v]
    BY <1>6, <2>1, <2>2
  <2>4. f[u] = NeedsOf(bl, g, u)
    <3>1. u = k \/ u \in 1 .. (k - 1)
      BY <1>3
    <3> QED BY <1>5, <1>6, <1>7, <3>1
  <2>5. {g[v] : v \in bl[u]} = {f[v] : v \in bl[u]}
    BY <2>3
  <2> QED BY <2>4, <2>5 DEF NeedsOf
<1>9. IsNeeds(f, bl, k)
  BY <1>7, <1>8, Zenon DEF IsNeeds
<1> QED BY <1>1, <1>9

\* A set of numbers that is not empty up to a bound has a last one.
LEMMA LastNatural ==
  ASSUME NEW n \in Nat, NEW B \in SUBSET (0 .. n), B # {}
  PROVE  \E b \in B : \A x \in B : x <= b
<1> DEFINE C == {n - x : x \in B}
<1>1. C \in SUBSET Nat /\ C # {}
  <2>1. \A x \in B : n - x \in Nat
    OBVIOUS
  <2> QED BY <2>1
<1>2. PICK c \in C : \A y \in C : c <= y
  <2> HIDE DEF C
  <2> QED BY <1>1, LeastNatural
<1>3. PICK b \in B : c = n - b
  BY <1>2
<1>4. \A x \in B : x <= b
  <2> TAKE x \in B
  <2>1. n - b <= n - x
    BY <1>2, <1>3
  <2>2. x \in Int /\ b \in Int
    <3>1. x \in 0 .. n /\ b \in 0 .. n
      OBVIOUS
    <3> QED BY <3>1
  <2> QED BY <2>1, <2>2
<1> QED BY <1>4

\* Needs as a set: it is within any set of URLs that holds what they need, and is one itself.
LEMMA NeedsFacts ==
  ASSUME blobs \in Seq(SUBSET Nat), Layered(blobs), NEW url \in DOMAIN blobs
  PROVE  /\ url \in Needs(url)
         /\ \A w \in Needs(url) : w \in DOMAIN blobs /\ blobs[w] \subseteq Needs(url)
         /\ \A S : url \in S /\ (\A w \in S : blobs[w] \subseteq S) => Needs(url) \subseteq S
<1> DEFINE n == Len(blobs)
           f == CHOOSE g : IsNeeds(g, blobs, url)
<1>1. n \in Nat /\ DOMAIN blobs = 1 .. n /\ url \in 1 .. n /\ url \in 0 .. n
  OBVIOUS
<1>2. Needs(url) = f[url]
  BY DEF Needs, IsNeeds, NeedsOf
<1>3. IsNeeds(f, blobs, url)
  <2>1. \E g : IsNeeds(g, blobs, url)
    BY <1>1, NeedsExists
  <2> QED BY <2>1
<1> HIDE DEF f, n
<1>4. \A u \in 1 .. url : f[u] = {u} \union UNION {f[v] : v \in blobs[u]}
  <2>1. \A u \in 1 .. url : f[u] = NeedsOf(blobs, f, u)
    BY <1>3, NeedsAt
  <2> QED BY <2>1 DEF NeedsOf
<1>5. \A u \in 1 .. url : u \in 1 .. n /\ blobs[u] \subseteq 1 .. (u - 1)
  BY <1>1 DEF Layered
<1>6. \A u \in 1 .. url : \A v \in 1 .. (u - 1) : v \in 1 .. url /\ v < u /\ v \in Nat
  BY <1>1
<1>7. \A u \in 1 .. url : \A w \in f[u] : w \in 1 .. url /\ blobs[w] \subseteq f[u]
  <2> DEFINE P(u) == \A w \in f[u] : w \in 1 .. url /\ blobs[w] \subseteq f[u]
             B == {u \in 1 .. url : ~P(u)}
  <2> SUFFICES ASSUME B # {} PROVE FALSE
    OBVIOUS
  <2>1. PICK k \in B : \A x \in B : k <= x
    <3>1. B \in SUBSET Nat
      BY <1>1
    <3> HIDE DEF B
    <3> QED BY <3>1, LeastNatural
  <2>2. k \in 1 .. url /\ ~P(k)
    BY <2>1
  <2>3. \A v \in blobs[k] : v \in 1 .. url /\ P(v)
    <3> TAKE v \in blobs[k]
    <3>1. v \in 1 .. url /\ v < k /\ k \in Nat /\ v \in Nat
      BY <1>5, <1>6, <2>2
    <3>2. v \notin B
      BY <2>1, <3>1
    <3> QED BY <3>1, <3>2
  <2>4. f[k] = {k} \union UNION {f[v] : v \in blobs[k]}
    BY <1>4, <2>2
  <2>5. \A v \in blobs[k] : v \in f[v] /\ f[v] \subseteq f[k]
    BY <1>4, <2>3, <2>4
  <2>6. ASSUME NEW w \in f[k] PROVE w \in 1 .. url /\ blobs[w] \subseteq f[k]
    <3>1. CASE w = k
      BY <2>2, <2>5, <3>1
    <3>2. CASE w # k
      <4>1. PICK v \in blobs[k] : w \in f[v]
        BY <2>4, <2>6, <3>2
      <4>2. w \in 1 .. url /\ blobs[w] \subseteq f[v]
        BY <2>3, <4>1
      <4> QED BY <2>5, <4>1, <4>2
    <3> QED BY <3>1, <3>2
  <2> QED BY <2>2, <2>6
<1>8. ASSUME NEW S, \A w \in S : blobs[w] \subseteq S, NEW u \in 1 .. url, u \in S
      PROVE  f[u] \subseteq S
  <2> DEFINE B == {x \in 1 .. url : x \in S /\ ~(f[x] \subseteq S)}
  <2> SUFFICES ASSUME B # {} PROVE FALSE
    BY <1>8
  <2>1. PICK k \in B : \A x \in B : k <= x
    <3>1. B \in SUBSET Nat
      BY <1>1
    <3> HIDE DEF B
    <3> QED BY <3>1, LeastNatural
  <2>2. k \in 1 .. url /\ k \in S /\ ~(f[k] \subseteq S)
    BY <2>1
  <2>3. \A v \in blobs[k] : f[v] \subseteq S
    <3> TAKE v \in blobs[k]
    <3>1. v \in 1 .. url /\ v < k /\ k \in Nat /\ v \in Nat /\ v \in S
      BY <1>5, <1>6, <1>8, <2>2
    <3>2. v \notin B
      BY <2>1, <3>1
    <3> QED BY <3>1, <3>2
  <2>4. f[k] = {k} \union UNION {f[v] : v \in blobs[k]}
    BY <1>4, <2>2
  <2> QED BY <2>2, <2>3, <2>4
<1>9. url \in 1 .. url /\ url \in f[url]
  BY <1>1, <1>4
<1>10. \A w \in f[url] : w \in DOMAIN blobs /\ blobs[w] \subseteq f[url]
  BY <1>1, <1>5, <1>7, <1>9
<1>11. \A S : url \in S /\ (\A w \in S : blobs[w] \subseteq S) => f[url] \subseteq S
  BY <1>8, <1>9
<1> QED BY <1>2, <1>9, <1>10, <1>11

\* Plain books are orderly.
LEMMA PlainRight ==
  ASSUME NEW b \in PlainBooks
  PROVE  b \in OrderlyBooks /\ b.spine \cap b.missing = {}
BY DEF PlainBooks

\* The invariant holds at first and is kept by every step: a book stays what it is.
LEMMA InitIInv ==
  ASSUME Init
  PROVE  IInv
<1>1. book \in Books
  BY DEF Init
<1>2. book \in OrderlyBooks => OrderlyInv
  BY OrderlyRight, InitOrderly
<1>3. book \in PlainBooks /\ ~failed => PlainInv
  <2> HAVE book \in PlainBooks /\ ~failed
  <2>1. BookRight(book)
    BY PlainRight, OrderlyRight
  <2>2. cache = [h \in DOMAIN book.links |-> Nothing] /\ view = Nothing /\ \A l \in Loads : load[l] = Nothing
    BY DEF Init, Href
  <2>3. \A s \in book.spine : cache[s] = Nothing
    BY <2>1, <2>2 DEF BookRight
  <2> QED BY <2>2, <2>3 DEF PlainInv, Cached
<1> QED BY <1>1, <1>2, <1>3 DEF IInv

\* Every step keeps it,
LEMMA NextIInv ==
  ASSUME IInv, Next
  PROVE  IInv'
<1>1. book' = book
  BY DEF Next, GoTo, FromCache, Read, TextArrives, ReadFails, NextLink, CreateURL, Display, FrameLoads
<1>2. book \in OrderlyBooks => OrderlyInv'
  BY OrderlyRight, OrderlyStep DEF IInv
<1>3. failed => failed'
  BY DEF Next, GoTo, FromCache, Read, TextArrives, ReadFails, NextLink, CreateURL, Display, FrameLoads
<1>5. book \in PlainBooks /\ ~failed' => PlainInv'
  BY <1>3, PlainRight, OrderlyRight, PlainNext DEF IInv
<1>4. OrderlyBooks' = OrderlyBooks /\ PlainBooks' = PlainBooks
  BY DEF OrderlyBooks, PlainBooks, Cyclic
<1> QED BY <1>1, <1>2, <1>4, <1>5 DEF IInv

\* and so does a stutter.
LEMMA StutterIInv ==
  ASSUME IInv, UNCHANGED vars
  PROVE  IInv'
<1>1. /\ UNCHANGED <<book, blobs, live, cache, refCount, children, load, index, view, failed>>
  BY DEF vars, loader
<1>2. OrderlyInv => OrderlyInv'
  <2>1. BusyNow' = BusyNow
    BY <1>1 DEF BusyNow
  <2>2. OneLoad' = OneLoad /\ ViewRight' = ViewRight
    BY <1>1 DEF OneLoad, ViewRight
  <2> SUFFICES ASSUME OrderlyInv PROVE OrderlyInv'
    OBVIOUS
  <2>3. /\ Kept(book, blobs, cache, refCount, children, live, << >>, BusyNow)
        /\ \A l \in Loads : load[l] # Nothing => LoadRight(book, cache, children, load[l])
        /\ OneLoad /\ ViewRight /\ index \in book.spine \union {Nothing}
    BY Zenon DEF OrderlyInv
  <2>4. Kept(book', blobs', cache', refCount', children', live', << >>, BusyNow')
    BY <1>1, <2>1, <2>3, Zenon
  <2>5. \A l \in Loads : load'[l] # Nothing => LoadRight(book', cache', children', load'[l])
    BY <1>1, <2>3, Zenon
  <2> QED BY <1>1, <2>2, <2>3, <2>4, <2>5, OrderlyAfter
<1>3. PlainInv => PlainInv'
  BY <1>1 DEF PlainInv, Cached
<1> QED BY <1>1, <1>2, <1>3 DEF IInv

\* The invariant of loadItem, unref and the paginator's #display: the counts are the lists that
\* hold a file, the lists are the URLs inside it, and the loads are chains of files.
THEOREM LoaderInvariant == Spec => []IInv
<1>1. IInv /\ [Next]_vars => IInv'
  BY NextIInv, StutterIInv
<1> QED BY InitIInv, <1>1, PTL DEF Spec

\* What is live needs only what is live.
LEMMA LiveClosed ==
  ASSUME BookRight(book), OrderlyInv
  PROVE  /\ blobs \in Seq(SUBSET Nat) /\ Layered(blobs)
         /\ \A h \in DOMAIN book.links : cache[h] # Nothing =>
              cache[h] \in DOMAIN blobs /\ cache[h] \in live
         /\ \A w \in live : blobs[w] \subseteq live
<1> DEFINE H == DOMAIN book.links
<1>1. Kept(book, blobs, cache, refCount, children, live, << >>, BusyNow)
  BY Zenon DEF OrderlyInv
<1>2. /\ blobs \in Seq(SUBSET Nat) /\ cache \in [H -> (1 .. Len(blobs)) \union {Nothing}]
      /\ children \in [H \union {Root} -> Seq(H)]
      /\ Layered(blobs) /\ UrlsRight(book, blobs, cache, children, live)
      /\ ListsRight(book, cache, children, BusyNow)
  BY <1>1, KeptFacts, Zenon
<1>3. DOMAIN blobs = 1 .. Len(blobs)
  BY <1>2
<1>4. live = {cache[h] : h \in {k \in H : cache[k] # Nothing}}
  BY <1>2, Zenon DEF UrlsRight
<1>5. \A h \in H : cache[h] # Nothing => cache[h] \in DOMAIN blobs /\ cache[h] \in live
  BY <1>2, <1>3, <1>4
<1>6. ASSUME NEW w \in live PROVE blobs[w] \subseteq live
  <2>1. PICK h \in H : cache[h] # Nothing /\ w = cache[h]
    BY <1>4
  <2>2. blobs[w] \subseteq UrlsOf(cache, children[h])
    BY <1>2, <2>1 DEF UrlsRight, Agrees
  <2>3. \A k \in ToSet(children[h]) : k \in H /\ cache[k] # Nothing
    <3>1. ToSet(children[h]) \subseteq H
      BY <1>2, ListSets
    <3> QED BY <1>2, <3>1 DEF ListsRight
  <2>4. \A k \in ToSet(children[h]) : cache[k] \in live
    BY <1>5, <2>3
  <2> QED BY <2>2, <2>4 DEF UrlsOf
<1> QED BY <1>2, <1>5, <1>6

\* What is on the screen is live with all that it needs.
LEMMA ShownFacts ==
  ASSUME BookRight(book), OrderlyInv, view # Nothing
  PROVE  /\ view.url \in DOMAIN blobs /\ view.url \in live
         /\ view.url \in Needs(view.url)
         /\ \A w \in Needs(view.url) : w \in DOMAIN blobs /\ blobs[w] \subseteq Needs(view.url)
         /\ Needs(view.url) \subseteq live
<1>1. PICK s \in book.spine : cache[s] # Nothing /\ cache[s] = view.url
  BY DEF OrderlyInv, ViewRight
<1>2. s \in DOMAIN book.links
  BY DEF BookRight
<1>3. view.url \in DOMAIN blobs /\ view.url \in live
  BY <1>1, <1>2, LiveClosed
<1>4. blobs \in Seq(SUBSET Nat) /\ Layered(blobs) /\ \A w \in live : blobs[w] \subseteq live
  BY LiveClosed
<1> DEFINE url == view.url
<1>5. url \in DOMAIN blobs /\ url \in live
  BY <1>3
<1> HIDE DEF url
<1>6. /\ url \in Needs(url)
      /\ \A w \in Needs(url) : w \in DOMAIN blobs /\ blobs[w] \subseteq Needs(url)
      /\ \A S : url \in S /\ (\A w \in S : blobs[w] \subseteq S) => Needs(url) \subseteq S
  BY <1>4, <1>5, NeedsFacts
<1>7. Needs(url) \subseteq live
  BY <1>4, <1>5, <1>6
<1> QED BY <1>5, <1>6, <1>7 DEF url

\* The invariant says that what is shown is live,
LEMMA ShownHolds ==
  ASSUME IInv
  PROVE  ShownIsLive
<1> SUFFICES ASSUME book \in OrderlyBooks, view # Nothing PROVE Needs(view.url) \subseteq live
  BY DEF ShownIsLive
<1>1. BookRight(book) /\ OrderlyInv
  BY OrderlyRight DEF IInv
<1> QED BY <1>1, ShownFacts

\* No URL in the document on the screen is ever revoked by unref (ShownIsLive), for every book
\* without circles, however many sections, files and visits there are, and whichever loads fail.
THEOREM ShownStaysLive == Spec => []ShownIsLive
BY LoaderInvariant, ShownHolds, PTL

\* At rest every file that has a URL and is no section is in the list of one that has a later URL.
LEMMA HeldAtRest ==
  ASSUME BookRight(book), OrderlyInv, ~failed, \A l \in Loads : load[l] = Nothing,
         NEW h \in DOMAIN book.links, h \notin book.spine, cache[h] # Nothing
  PROVE  \E w \in live : cache[h] \in blobs[w] /\ cache[h] < w
<1> DEFINE H == DOMAIN book.links
<1>1. BusyNow = {}
  BY DEF BusyNow, BusyOf
<1>2. Kept(book, blobs, cache, refCount, children, live, << >>, {})
  BY <1>1, Zenon DEF OrderlyInv
<1>3. /\ blobs \in Seq(SUBSET Nat) /\ cache \in [H -> (1 .. Len(blobs)) \union {Nothing}]
      /\ refCount \in [H -> Nat] /\ children \in [H \union {Root} -> Seq(H)]
      /\ Layered(blobs) /\ UrlsRight(book, blobs, cache, children, live)
      /\ ListsRight(book, cache, children, {}) /\ CountsRight(book, cache, refCount, children, << >>)
  BY <1>2, KeptFacts, Zenon
<1>4. Holders(book, children, h) # {}
  <2>1. Places(<< >>, h) = {}
    BY DEF Places
  <2>2. refCount[h] > 0 /\ refCount[h] = Cardinality(Holders(book, children, h)) + Cardinality(Places(<< >>, h))
    BY <1>3 DEF CountsRight
  <2>3. Cardinality({}) = 0
    BY FS_EmptySet
  <2>4. ASSUME Holders(book, children, h) = {} PROVE FALSE
    <3>1. refCount[h] > 0 /\ refCount[h] = Cardinality({}) + Cardinality({})
      BY <2>1, <2>2, <2>4
    <3> QED BY <2>3, <3>1
  <2> QED BY <2>4
<1>5. PICK p \in H : h \in ToSet(children[p])
  BY <1>4 DEF Holders
<1>6. cache[p] # Nothing
  <2>1. children[p] # << >>
    BY <1>5, EmptySeqSet
  <2> QED BY <1>3, <2>1 DEF ListsRight
<1>7. cache[p] \in DOMAIN blobs /\ cache[p] \in live
  BY <1>6, LiveClosed
<1>8. cache[h] \in blobs[cache[p]]
  <2>1. blobs[cache[p]] = UrlsOf(cache, children[p])
    BY <1>3, <1>6 DEF UrlsRight, Agrees
  <2> QED BY <1>5, <2>1 DEF UrlsOf
<1>9. cache[h] < cache[p]
  <2>1. blobs[cache[p]] \subseteq 1 .. (cache[p] - 1) /\ cache[p] \in Nat
    BY <1>3, <1>7 DEF Layered
  <2> QED BY <1>8, <2>1
<1> QED BY <1>7, <1>8, <1>9

\* and, at rest, that nothing else is: a last URL that is not needed would be held by a later one.
LEMMA NothingLeaksHolds ==
  ASSUME IInv
  PROVE  NothingLeaks
<1> SUFFICES ASSUME book \in PlainBooks, view # Nothing, \A l \in Loads : load[l] = Nothing, ~failed
             PROVE  live = Needs(view.url)
  BY DEF NothingLeaks
<1> DEFINE H == DOMAIN book.links
           url == view.url
           B == live \ Needs(url)
<1>1. BookRight(book) /\ OrderlyInv /\ PlainInv
  BY PlainRight, OrderlyRight DEF IInv
<1>2. /\ url \in Needs(url) /\ Needs(url) \subseteq live
      /\ \A w \in Needs(url) : w \in DOMAIN blobs /\ blobs[w] \subseteq Needs(url)
  BY <1>1, ShownFacts
<1>3. Cached \subseteq {index} /\ url = cache[index]
  BY <1>1 DEF PlainInv
<1>4. \A u \in live : u \in DOMAIN blobs /\ \E h \in H : cache[h] # Nothing /\ u = cache[h]
  <2>1. Kept(book, blobs, cache, refCount, children, live, << >>, BusyNow)
    BY <1>1, Zenon DEF OrderlyInv
  <2>2. live = {cache[h] : h \in {k \in H : cache[k] # Nothing}}
    BY <2>1, Zenon DEF Kept, UrlsRight
  <2> QED BY <1>1, <2>2, LiveClosed
<1>5. Len(blobs) \in Nat /\ DOMAIN blobs = 1 .. Len(blobs)
  BY <1>1, LiveClosed
<1> HIDE DEF url
<1>6. B = {}
  <2> SUFFICES ASSUME B # {} PROVE FALSE
    OBVIOUS
  <2>1. B \in SUBSET (0 .. Len(blobs))
    BY <1>4, <1>5
  <2>2. PICK u \in B : \A x \in B : x <= u
    <3> HIDE DEF B
    <3> QED BY <1>5, <2>1, LastNatural
  <2>3. u \in live /\ u \notin Needs(url)
    BY <2>2
  <2>4. PICK h \in H : cache[h] # Nothing /\ u = cache[h]
    BY <1>4, <2>3
  <2>5. h \notin book.spine
    BY <1>2, <1>3, <2>3, <2>4 DEF Cached
  <2>6. PICK w \in live : u \in blobs[w] /\ u < w
    BY <1>1, <2>4, <2>5, HeldAtRest
  <2>7. w \in Nat /\ u \in Nat
    BY <1>4, <1>5, <2>3
  <2>8. w \notin B
    BY <2>2, <2>6, <2>7
  <2>9. w \in Needs(url)
    BY <2>8
  <2> QED BY <1>2, <2>3, <2>6, <2>9
<1> QED BY <1>2, <1>6 DEF url

\* Once a navigation has ended no URL is left but those of the section shown, as long as every file
\* could be read (NothingLeaks).
THEOREM NothingStays == Spec => []NothingLeaks
BY LoaderInvariant, NothingLeaksHolds, PTL

==============================================================================
