-------------------------- MODULE BookPlaces_proofs --------------------------
(* Proofs about what a reader is told of a place, for every book: the item of  *)
(* the contents that is shown has begun (TOCProgress), and the progress bar    *)
(* leads to the fraction of the book that it shows (SectionProgress).          *)
EXTENDS BookPlaces, TLAPS, FiniteSetTheorems, SequenceTheorems, WellFoundedInduction

\* A set of numbers has a least one.
LEMMA LeastNumber ==
  ASSUME NEW B \in SUBSET Nat, B # {}
  PROVE  \E b \in B : \A x \in B : b <= x
<1> DEFINE Upto == {1 .. b : b \in B}
           Within == StrictSubsetOrdering(Nat)
<1>1. Upto \subseteq FiniteSubsetsOf(Nat) /\ Upto # {}
  <2>1. \A b \in B : 1 .. b \in SUBSET Nat /\ IsFiniteSet(1 .. b)
    BY FS_Interval
  <2> QED BY <2>1 DEF FiniteSubsetsOf
<1>2. \E x \in Upto : \A y \in Upto : <<y, x>> \notin Within
  <2>1. IsWellFoundedOn(Within, FiniteSubsetsOf(Nat))
    BY FS_StrictSubsetOrderingWellFounded
  <2> HIDE DEF Upto, Within
  <2> QED BY <1>1, <2>1, WFMin
<1>3. PICK b \in B : \A y \in Upto : <<y, 1 .. b>> \notin Within
  BY <1>2
<1>4. ASSUME NEW x \in B, x < b PROVE FALSE
  <2>1. <<1 .. x, 1 .. b>> \notin Within
    BY <1>3
  <2>2. 1 .. x \subseteq 1 .. b /\ b \in 1 .. b /\ b \notin 1 .. x
    BY <1>4
  <2>3. 1 .. x # 1 .. b /\ 1 .. x \in SUBSET Nat /\ 1 .. b \in SUBSET Nat
    BY <2>2
  <2> QED BY <2>1, <2>2, <2>3 DEF StrictSubsetOrdering
<1> QED BY <1>4

\* A set of numbers up to some number has a greatest one.
LEMMA GreatestNumber ==
  ASSUME NEW n \in Nat, NEW B, B \subseteq 1 .. n, B # {}
  PROVE  \E b \in B : \A x \in B : x <= b
<1> DEFINE C == {n - b : b \in B}
<1>1. C \in SUBSET Nat /\ C # {}
  OBVIOUS
<1>2. PICK c \in C : \A x \in C : c <= x
  <2> HIDE DEF C
  <2> QED BY <1>1, LeastNumber
<1>3. PICK b \in B : c = n - b
  OBVIOUS
<1>4. \A x \in B : n - b <= n - x /\ x \in Nat /\ b \in Nat
  BY <1>2, <1>3
<1> QED BY <1>4

\* Max and Min of such a set.
LEMMA MaxMin ==
  ASSUME NEW n \in Nat, NEW B, B \subseteq 1 .. n, B # {}
  PROVE  /\ Max(B) \in B /\ \A x \in B : x <= Max(B)
         /\ Min(B) \in B /\ \A x \in B : Min(B) <= x
<1>1. \E b \in B : \A x \in B : b >= x
  <2>1. PICK b \in B : \A x \in B : x <= b
    BY GreatestNumber
  <2>2. \A x \in B : x \in Int /\ b \in Int
    OBVIOUS
  <2> QED BY <2>1, <2>2
<1>2. Max(B) \in B /\ \A x \in B : Max(B) >= x
  BY <1>1 DEF Max
<1>3. \E b \in B : \A x \in B : b <= x
  <2>1. B \in SUBSET Nat
    OBVIOUS
  <2> QED BY <2>1, LeastNumber
<1>4. Min(B) \in B /\ \A x \in B : Min(B) =< x
  BY <1>3 DEF Min
<1> DEFINE max == Max(B)
           min == Min(B)
<1>5. max \in B /\ \A x \in B : max >= x
  BY <1>2
<1>6. min \in B /\ \A x \in B : min =< x
  BY <1>4
<1> HIDE DEF max, min
<1>7. max \in B /\ (\A x \in B : x <= max) /\ min \in B /\ (\A x \in B : min <= x)
  BY <1>5, <1>6
<1> QED BY <1>7 DEF max, min

\* Max of a set is the member that none is above.
LEMMA MaxIs ==
  ASSUME NEW n \in Nat, NEW B, B \subseteq 1 .. n, NEW b \in B, \A x \in B : x <= b
  PROVE  Max(B) = b
<1> DEFINE max == Max(B)
<1>1. max \in B /\ \A x \in B : x <= max
  <2>1. B # {}
    OBVIOUS
  <2> QED BY <2>1, MaxMin
<1> HIDE DEF max
<1>2. max = b
  BY <1>1
<1> QED BY <1>2 DEF max

-----------------------------------------------------------------------------
(* The order of a document                                                    *)

\* Where two paths part, and what the first has before.
Parts(p, q, k) ==
  /\ k \in 1 .. Len(q)
  /\ \A j \in 1 .. k - 1 : j <= Len(p) /\ p[j] = q[j]
  /\ k = Len(p) + 1 \/ (k <= Len(p) /\ p[k] < q[k])

LEMMA Beginning ==
  ASSUME NEW p \in Seq(Nat), NEW n \in Nat, n <= Len(p)
  PROVE  \A j \in 1 .. n : SubSeq(p, 1, n)[j] = p[j]
OBVIOUS

LEMMA BeforeParts ==
  ASSUME NEW p \in Seq(Nat), NEW q \in Seq(Nat)
  PROVE  BeforeNode(p, q) <=> \E k \in Nat : Parts(p, q, k)
<1>0. DOMAIN p = 1 .. Len(p) /\ DOMAIN q = 1 .. Len(q) /\ Len(p) \in Nat /\ Len(q) \in Nat
  OBVIOUS
<1>1. ASSUME IsStrictPrefix(p, q) PROVE Parts(p, q, Len(p) + 1)
  <2>1. Len(p) <= Len(q) /\ p # q /\ \A j \in 1 .. Len(p) : p[j] = q[j]
    BY <1>1 DEF IsStrictPrefix, IsPrefix
  <2>2. Len(p) # Len(q)
    <3>1. SUFFICES ASSUME Len(p) = Len(q) PROVE p = q
      BY <2>1
    <3>2. \A j \in 1 .. Len(p) : p[j] = q[j]
      BY <2>1
    <3> QED BY <3>1, <3>2, SeqEqual, SMTT(60)
  <2>3. Len(p) + 1 \in 1 .. Len(q) /\ \A j \in 1 .. Len(p) + 1 - 1 : j <= Len(p) /\ p[j] = q[j]
    <3> DEFINE m == Len(p)
               n == Len(q)
    <3>1. m \in Nat /\ n \in Nat /\ m <= n /\ m # n /\ \A j \in 1 .. m : p[j] = q[j]
      BY <1>0, <2>1, <2>2, Zenon
    <3> HIDE DEF m, n
    <3>2. m + 1 \in 1 .. n /\ m + 1 - 1 = m /\ \A j \in 1 .. m : j <= m /\ p[j] = q[j]
      BY <3>1
    <3> QED BY <3>2, Zenon DEF m, n
  <2> QED BY <2>3 DEF Parts
<1>2. ASSUME NEW k \in DOMAIN p \cap DOMAIN q, p[k] < q[k], SubSeq(p, 1, k - 1) = SubSeq(q, 1, k - 1)
      PROVE  Parts(p, q, k)
  <2>1. k \in Nat /\ k - 1 \in Nat /\ k <= Len(p) /\ k <= Len(q)
    BY <1>0, <1>2
  <2>2. /\ \A j \in 1 .. k - 1 : SubSeq(p, 1, k - 1)[j] = p[j]
        /\ \A j \in 1 .. k - 1 : SubSeq(q, 1, k - 1)[j] = q[j]
    <3> DEFINE n == k - 1
    <3>1. n \in Nat /\ n <= Len(p) /\ n <= Len(q)
      BY <1>0, <2>1
    <3> HIDE DEF n
    <3>2. \A j \in 1 .. n : SubSeq(p, 1, n)[j] = p[j]
      BY <3>1, Beginning
    <3>3. \A j \in 1 .. n : SubSeq(q, 1, n)[j] = q[j]
      BY <3>1, Beginning
    <3> QED BY <3>2, <3>3 DEF n
  <2>3. \A j \in 1 .. k - 1 : j <= Len(p) /\ p[j] = q[j]
    <3> TAKE j \in 1 .. k - 1
    <3>1. j <= Len(p)
      BY <1>0, <2>1
    <3>2. p[j] = q[j]
      BY <1>2, <2>2
    <3> QED BY <3>1, <3>2
  <2> QED BY <1>0, <1>2, <2>3 DEF Parts
<1>3. ASSUME NEW k \in Nat, Parts(p, q, k) PROVE BeforeNode(p, q)
  <2>1. k \in 1 .. Len(q) /\ \A j \in 1 .. k - 1 : j <= Len(p) /\ p[j] = q[j]
    BY <1>3 DEF Parts
  <2>2. CASE k = Len(p) + 1
    <3>1. SubSeq(q, 1, Len(p)) = SubSeq(p, 1, Len(p))
      BY <1>0, <2>1, <2>2
    <3> QED BY <1>0, <2>1, <2>2, <3>1 DEF BeforeNode, IsStrictPrefix, IsPrefix
  <2>3. CASE k <= Len(p) /\ p[k] < q[k]
    <3>1. SubSeq(p, 1, k - 1) = SubSeq(q, 1, k - 1)
      BY <1>0, <2>1, <2>3
    <3>2. k \in DOMAIN p \cap DOMAIN q
      BY <1>0, <2>1, <2>3
    <3> QED BY <2>3, <3>1, <3>2 DEF BeforeNode
  <2> QED BY <1>3, <2>2, <2>3 DEF Parts
<1> QED BY <1>0, <1>1, <1>2, <1>3 DEF BeforeNode

\* What begins after what begins after a point begins after the point.
LEMMA BeforeTransitive ==
  ASSUME NEW p \in Seq(Nat), NEW q \in Seq(Nat), NEW r \in Seq(Nat),
         BeforeNode(p, q), BeforeNode(q, r)
  PROVE  BeforeNode(p, r)
<1>1. PICK k \in Nat : Parts(p, q, k)
  BY BeforeParts
<1>2. PICK l \in Nat : Parts(q, r, l)
  BY BeforeParts
<1>3. /\ Len(p) \in Nat /\ Len(q) \in Nat /\ Len(r) \in Nat
      /\ \A i \in 1 .. Len(p) : p[i] \in Nat
      /\ \A i \in 1 .. Len(q) : q[i] \in Nat
      /\ \A i \in 1 .. Len(r) : r[i] \in Nat
  BY LenProperties
<1> DEFINE m == Len(p)
           n == Len(q)
           o == Len(r)
<1>4. /\ k \in 1 .. n /\ \A j \in 1 .. k - 1 : j <= m /\ p[j] = q[j]
      /\ k = m + 1 \/ (k <= m /\ p[k] < q[k])
  BY <1>1 DEF Parts
<1>5. /\ l \in 1 .. o /\ \A j \in 1 .. l - 1 : j <= n /\ q[j] = r[j]
      /\ l = n + 1 \/ (l <= n /\ q[l] < r[l])
  BY <1>2 DEF Parts
<1>6. /\ m \in Nat /\ n \in Nat /\ o \in Nat
      /\ \A i \in 1 .. m : p[i] \in Nat
      /\ \A i \in 1 .. n : q[i] \in Nat
      /\ \A i \in 1 .. o : r[i] \in Nat
  BY <1>3
<1> HIDE DEF m, n, o
<1>7. CASE l < k
  <2>1. l \in 1 .. o /\ \A j \in 1 .. l - 1 : j <= m /\ p[j] = r[j]
    BY <1>4, <1>5, <1>6, <1>7
  <2>2. l <= m /\ p[l] = q[l] /\ l <= n /\ q[l] < r[l]
    BY <1>4, <1>5, <1>6, <1>7
  <2>3. Parts(p, r, l)
    BY <2>1, <2>2 DEF Parts, m, o
  <2> QED BY <2>3, BeforeParts
<1>8. CASE k <= l
  <2>1. k \in 1 .. o /\ \A j \in 1 .. k - 1 : j <= m /\ p[j] = r[j]
    BY <1>4, <1>5, <1>6, <1>8
  <2>2. k = m + 1 \/ (k <= m /\ p[k] < r[k])
    <3>1. k <= n /\ (k < l => q[k] = r[k]) /\ (k = l => q[l] < r[l])
      BY <1>4, <1>5, <1>6, <1>8
    <3>2. k <= m => p[k] < q[k] /\ p[k] \in Nat /\ q[k] \in Nat /\ r[k] \in Nat
      BY <1>4, <1>6, <2>1, <3>1
    <3>3. k < l \/ k = l
      BY <1>8, <1>4, <1>5
    <3>4. k <= m => p[k] < r[k]
      <4>1. CASE k < l
        BY <3>1, <3>2, <4>1
      <4>2. CASE k = l
        <5>1. q[k] < r[k]
          BY <3>1, <4>2
        <5> QED BY <3>2, <5>1
      <4> QED BY <3>3, <4>1, <4>2
    <3> QED BY <1>4, <3>4
  <2>3. Parts(p, r, k)
    BY <2>1, <2>2 DEF Parts, m, o
  <2> QED BY <2>3, BeforeParts
<1> QED BY <1>7, <1>8

-----------------------------------------------------------------------------
(* The contents                                                               *)

Section(b, k) == b.toc[k].section

\* The items that have begun where the page ends.
Begun(b, shown) ==
  {k \in DOMAIN b.toc :
     \/ Section(b, k) < shown.index
     \/ /\ Section(b, k) = shown.index
        /\ b.toc[k].id # <<>> => \E p \in Elements(b, shown.index, k) : ~BeforeNode(shown.to.node, p)}

\* What PlacesAssumption says of the book's contents.
LEMMA ContentsType ==
  ASSUME NEW b \in Books
  PROVE  /\ Len(b.toc) \in Nat /\ DOMAIN b.toc = 1 .. Len(b.toc)
         /\ \A k \in DOMAIN b.toc : Section(b, k) \in Nat \ {0} /\ Section(b, k) \in DOMAIN b.doc
         /\ \A i \in DOMAIN b.doc : \A k : Elements(b, i, k) \subseteq Seq(Nat)
<1>1. /\ b.toc \in Seq(ToSet(b.toc)) /\ DOMAIN b.doc = DOMAIN b.size /\ b.size \in Seq(Nat)
      /\ \A entry \in ToSet(b.toc) : entry.section \in DOMAIN b.doc
      /\ \A i \in DOMAIN b.doc : Nodes(b.doc[i]) \subseteq Seq(Nat)
  BY PlacesAssumption
<1>2. Len(b.toc) \in Nat /\ DOMAIN b.toc = 1 .. Len(b.toc)
  BY <1>1, LenProperties
<1>3. \A k \in DOMAIN b.toc : Section(b, k) \in DOMAIN b.doc
  BY <1>1 DEF Section, ToSet
<1>4. \A i \in DOMAIN b.doc : \A k : Elements(b, i, k) \subseteq Seq(Nat)
  BY <1>1 DEF Elements
<1>5. DOMAIN b.doc \subseteq Nat \ {0}
  BY <1>1
<1> QED BY <1>2, <1>3, <1>4, <1>5

\* The items of the section that the page is in, or of the last before it that has any.
LEMMA GroupedIs ==
  ASSUME NEW b \in Books, NEW i \in Nat \ {0}
  PROVE  \/ Grouped(b, i) = {} /\ \A k \in DOMAIN b.toc : Section(b, k) > i
         \/ \E m \in 1 .. i : /\ Grouped(b, i) = InSection(b, m) /\ InSection(b, m) # {}
                              /\ \A j \in 1 .. i : j > m => InSection(b, j) = {}
<1> DEFINE with == {j \in 1 .. i : InSection(b, j) # {}}
<1>1. \A k \in DOMAIN b.toc : Section(b, k) \in Nat \ {0} /\ k \in InSection(b, Section(b, k))
  BY ContentsType DEF InSection, Section
<1>2. Grouped(b, i) = IF with = {} THEN {} ELSE InSection(b, Max(with))
  BY DEF Grouped
<1>3. CASE with = {}
  <2>1. ASSUME NEW k \in DOMAIN b.toc, ~(Section(b, k) > i) PROVE FALSE
    <3>1. Section(b, k) \in 1 .. i /\ InSection(b, Section(b, k)) # {}
      BY <1>1, <2>1
    <3> QED BY <1>3, <3>1
  <2> QED BY <1>2, <1>3, <2>1
<1>4. CASE with # {}
  <2> DEFINE m == Max(with)
  <2>1. m \in with /\ \A j \in with : j <= m
    <3>1. with \subseteq 1 .. i
      OBVIOUS
    <3> HIDE DEF with
    <3> QED BY <1>4, <3>1, MaxMin
  <2>2. Grouped(b, i) = InSection(b, m)
    BY <1>2, <1>4
  <2> HIDE DEF m
  <2>3. m \in 1 .. i /\ InSection(b, m) # {}
    BY <2>1
  <2>4. ASSUME NEW j \in 1 .. i, j > m PROVE InSection(b, j) = {}
    BY <2>1, <2>3, <2>4
  <2> QED BY <2>2, <2>3, <2>4
<1> QED BY <1>3, <1>4

\* An item that follows one that begins after the page does so too.
LEMMA LaterStays ==
  ASSUME NEW b \in Books, ContentsInOrder(b), NEW i \in DOMAIN b.doc, NEW to \in Seq(Nat),
         NEW j \in InSection(b, i), NEW k \in InSection(b, i), j < k,
         NEW el \in Elements(b, i, j), BeforeNode(to, el)
  PROVE  \E q \in Elements(b, i, k) : BeforeNode(to, q)
<1>1. j \in DOMAIN b.toc /\ k \in DOMAIN b.toc /\ b.toc[j].section = i /\ b.toc[k].section = i
  BY DEF InSection
<1>2. /\ b.toc[k].id = << >> => b.toc[j].id = << >>
      /\ \A p \in Elements(b, i, j), q \in Elements(b, i, k) : p = q \/ BeforeNode(p, q)
  <2>1. i \in Nat
    BY ContentsType, <1>1 DEF Section
  <2> QED BY <1>1, <2>1 DEF ContentsInOrder
<1>3. b.toc[k].id # << >>
  BY <1>2 DEF Elements
<1>4. PICK q \in Elements(b, i, k) : TRUE
  BY <1>1, <1>3 DEF ContentsInOrder
<1>5. el \in Seq(Nat) /\ q \in Seq(Nat)
  BY ContentsType
<1>6. el = q \/ BeforeNode(el, q)
  BY <1>2
<1>7. BeforeNode(to, q)
  BY <1>5, <1>6, BeforeTransitive
<1> QED BY <1>7

\* The item shown is the last that has begun.
LEMMA TocItemRight ==
  ASSUME NEW b \in Books, ContentsInOrder(b), NEW shown,
         shown.index \in DOMAIN b.doc, shown.to.node \in Seq(Nat)
  PROVE  TocItem(b, shown) = IF Begun(b, shown) = {} THEN 0 ELSE Max(Begun(b, shown))
<1> DEFINE i == shown.index
           n == Len(b.toc)
           items == Grouped(b, i)
           later == {k \in items : \E el \in Elements(b, i, k) : Begins(shown, el)}
           begun == Begun(b, shown)
<1>1. /\ n \in Nat /\ DOMAIN b.toc = 1 .. n /\ i \in Nat \ {0}
      /\ \A k \in 1 .. n : Section(b, k) \in Nat \ {0} /\ Section(b, k) \in DOMAIN b.doc
  <2>1. i \in Nat \ {0}
    <3>1. DOMAIN b.doc = DOMAIN b.size /\ b.size \in Seq(Nat)
      BY PlacesAssumption
    <3> QED BY <3>1
  <2> QED BY <2>1, ContentsType
<1>2. TocItem(b, shown) = CASE items = {} -> 0
        [] items # {} /\ later = {} -> Max(items)
        [] later # {} /\ Min(later) = Min(items) -> Min(items) - 1
        [] later # {} /\ Min(later) # Min(items) -> Max({k \in items : k < Min(later)})
  BY DEF TocItem
<1>3. begun \subseteq 1 .. n /\ later \subseteq items
  BY <1>1 DEF Begun
<1>4. \A m : InSection(b, m) = {k \in 1 .. n : Section(b, k) = m}
  BY <1>1 DEF InSection, Section
<1>5. \A j, k \in 1 .. n : j < k => Section(b, j) <= Section(b, k)
  <2> TAKE j, k \in 1 .. n
  <2>1. SUFFICES ASSUME j < k PROVE Section(b, j) <= Section(b, k)
    OBVIOUS
  <2>2. Section(b, j) < Section(b, k) \/ Section(b, j) = Section(b, k)
    BY <1>1, <2>1, Zenon DEF ContentsInOrder, Section
  <2>3. Section(b, j) \in Nat /\ Section(b, k) \in Nat
    BY <1>1
  <2> HIDE DEF n
  <2> QED BY <2>2, <2>3
<1>6. \A k \in 1 .. n : Section(b, k) < i => k \in begun
  BY <1>1 DEF Begun
<1>7. \A k \in begun : Section(b, k) <= i
  BY <1>1, <1>3 DEF Begun
<1>8. CASE items = {} /\ \A k \in DOMAIN b.toc : Section(b, k) > i
  <2>1. begun = {}
    BY <1>1, <1>3, <1>7, <1>8
  <2>2. TocItem(b, shown) = 0
    <3> HIDE DEF later, items
    <3> QED BY <1>2, <1>3, <1>8
  <2> QED BY <2>1, <2>2
<1>9. ASSUME NEW m \in 1 .. i, items = InSection(b, m), InSection(b, m) # {}, m < i,
             \A j \in 1 .. i : j > m => InSection(b, j) = {}
      PROVE  TocItem(b, shown) = Max(begun) /\ begun # {}
  <2>1. later = {}
    <3>1. InSection(b, i) = {}
      BY <1>1, <1>9
    <3>2. \A k \in items : Elements(b, i, k) = {}
      BY <1>1, <1>4, <1>9, <3>1 DEF ContentsInOrder
    <3> QED BY <3>2
  <2>2. TocItem(b, shown) = Max(items)
    <3> HIDE DEF later, items
    <3> QED BY <1>2, <1>9, <2>1
  <2>3. items \subseteq 1 .. n /\ items \subseteq begun
    BY <1>1, <1>4, <1>6, <1>9
  <2> DEFINE x == Max(items)
  <2>4. x \in items /\ \A k \in items : k <= x
    <3> HIDE DEF items
    <3> QED BY <1>1, <1>9, <2>3, MaxMin
  <2> HIDE DEF x, begun, items
  <2>5. \A k \in begun : k <= x
    <3> TAKE k \in begun
    <3>1. k \in 1 .. n /\ x \in 1 .. n /\ Section(b, x) = m /\ Section(b, k) <= i /\ Section(b, k) \in Nat \ {0}
      BY <1>1, <1>3, <1>4, <1>7, <1>9, <2>3, <2>4
    <3>2. Section(b, k) <= m
      <4>1. SUFFICES ASSUME Section(b, k) > m PROVE FALSE
        BY <3>1
      <4>2. k \in InSection(b, Section(b, k)) /\ Section(b, k) \in 1 .. i
        BY <1>4, <3>1
      <4> QED BY <1>9, <4>1, <4>2
    <3>3. SUFFICES ASSUME x < k PROVE k <= x
      BY <3>1
    <3>4. Section(b, k) = m
      BY <1>5, <3>1, <3>2, <3>3
    <3> QED BY <1>4, <1>9, <2>4, <3>1, <3>4
  <2>6. x \in begun
    BY <2>3, <2>4
  <2>7. Max(begun) = x
    BY <1>1, <1>3, <2>5, <2>6, MaxIs
  <2> QED BY <2>2, <2>6, <2>7 DEF x
<1>10. ASSUME items = InSection(b, i), InSection(b, i) # {}
       PROVE  TocItem(b, shown) = IF begun = {} THEN 0 ELSE Max(begun)
  <2>1. /\ items = {k \in 1 .. n : Section(b, k) = i} /\ items # {} /\ items \subseteq 1 .. n
        /\ later \subseteq 1 .. n
    BY <1>3, <1>4, <1>10
  <2>2. \A k \in items : k \in begun <=> k \notin later
    <3> TAKE k \in items
    <3>1. k \in 1 .. n /\ Section(b, k) = i /\ b.toc[k].section = i /\ ~(Section(b, k) < i)
      BY <1>1, <2>1 DEF Section
    <3>2. k \in begun <=> (b.toc[k].id # << >> => \E p \in Elements(b, i, k) : ~BeforeNode(shown.to.node, p))
      BY <1>1, <3>1 DEF Begun
    <3>3. k \in later <=> \E p \in Elements(b, i, k) : BeforeNode(shown.to.node, p)
      BY DEF Begins
    <3>4. b.toc[k].id = << >> => Elements(b, i, k) = {}
      BY DEF Elements
    <3>5. b.toc[k].id # << >> => \E p \in Elements(b, i, k) : \A q \in Elements(b, i, k) : p = q
      BY <1>1, <3>1 DEF ContentsInOrder
    <3> QED BY <3>2, <3>3, <3>4, <3>5
  <2>3. \A j \in later, k \in items : j < k => k \in later
    <3> TAKE j \in later, k \in items
    <3>1. SUFFICES ASSUME j < k PROVE k \in later
      OBVIOUS
    <3>2. PICK el \in Elements(b, i, j) : BeforeNode(shown.to.node, el)
      BY DEF Begins
    <3>3. j \in InSection(b, i) /\ k \in InSection(b, i)
      BY <1>3, <1>10
    <3>4. \E q \in Elements(b, i, k) : BeforeNode(shown.to.node, q)
      BY <3>1, <3>2, <3>3, LaterStays
    <3> QED BY <3>4 DEF Begins
  <2> DEFINE least == Min(items)
             first == Min(later)
             x == Max(items)
             y == Max({k \in items : k < first})
  <2>4. /\ least \in items /\ \A k \in items : least <= k
        /\ x \in items /\ \A k \in items : k <= x
    <3> HIDE DEF items
    <3> QED BY <1>1, <2>1, MaxMin
  <2>5. later # {} => first \in later /\ \A k \in later : first <= k
    <3> HIDE DEF later
    <3> QED BY <1>1, <2>1, MaxMin
  <2>6. later # {} /\ first # least => y \in items /\ y < first /\ \A k \in items : k < first => k <= y
    <3> SUFFICES ASSUME later # {}, first # least PROVE y \in items /\ y < first /\ \A k \in items : k < first => k <= y
      OBVIOUS
    <3> DEFINE early == {k \in items : k < first}
    <3> HIDE DEF items, later, first, least
    <3>1. least \in early /\ early \subseteq 1 .. n
      <4>1. least \in items /\ first \in items /\ least <= first
        BY <1>3, <2>4, <2>5
      <4>2. least \in Int /\ first \in Int
        BY <1>1, <2>1, <4>1
      <4>3. least < first
        BY <4>1, <4>2
      <4> QED BY <2>1, <4>1, <4>3
    <3>2. early # {}
      BY <3>1
    <3>3. Max(early) \in early /\ \A k \in early : k <= Max(early)
      <4> HIDE DEF early
      <4> QED BY <1>1, <3>1, <3>2, MaxMin
    <3> QED BY <3>3
  <2>7. TocItem(b, shown) = IF later = {} THEN x ELSE IF first = least THEN least - 1 ELSE y
    <3> HIDE DEF items, later
    <3> QED BY <1>2, <2>1
  <2>8. \A k \in 1 .. n : Section(b, k) < i <=> k < least
    <3> TAKE k \in 1 .. n
    <3>1. least \in 1 .. n /\ Section(b, least) = i
      BY <2>1, <2>4
    <3>2. Section(b, k) < i => k < least
      BY <1>1, <1>5, <3>1
    <3>3. k < least => Section(b, k) # i
      <4>1. SUFFICES ASSUME Section(b, k) = i, k < least PROVE FALSE
        OBVIOUS
      <4>2. k \in items
        BY <2>1, <4>1
      <4>3. least <= k
        BY <2>4, <4>2
      <4> HIDE DEF least
      <4> QED BY <3>1, <4>1, <4>3
    <3>4. k < least => Section(b, k) <= i
      BY <1>5, <3>1
    <3> QED BY <1>1, <3>2, <3>3, <3>4
  <2>9. begun = {k \in 1 .. n : k < least} \union {k \in items : k \notin later}
    <3>1. \A k \in begun : Section(b, k) < i \/ k \in items
      BY <1>1, <1>3, <1>7, <2>1
    <3> HIDE DEF begun, items, later, least
    <3> QED BY <1>3, <1>6, <2>1, <2>2, <2>8, <3>1
  <2> HIDE DEF begun, items, later, least, first, x, y
  <2>10. CASE later = {}
    <3>1. x \in begun /\ \A k \in begun : k <= x
      BY <1>1, <2>1, <2>4, <2>9, <2>10
    <3>2. Max(begun) = x
      BY <1>1, <1>3, <3>1, MaxIs
    <3> QED BY <2>7, <2>10, <3>1, <3>2
  <2>11. CASE later # {} /\ first = least
    <3>1. begun = {k \in 1 .. n : k < least}
      <4>1. \A k \in items : k \in later
        BY <1>1, <2>1, <2>3, <2>4, <2>5, <2>11
      <4> QED BY <2>9, <4>1
    <3>2. least \in 1 .. n
      BY <2>1, <2>4
    <3>3. CASE least = 1
      <4>1. begun = {}
        BY <3>1, <3>3
      <4> QED BY <2>7, <2>11, <3>3, <4>1
    <3>4. CASE least # 1
      <4>1. least - 1 \in begun /\ \A k \in begun : k <= least - 1
        BY <1>1, <3>1, <3>2, <3>4
      <4>2. Max(begun) = least - 1
        BY <1>1, <1>3, <4>1, MaxIs
      <4> QED BY <2>7, <2>11, <4>1, <4>2
    <3> QED BY <3>3, <3>4
  <2>12. CASE later # {} /\ first # least
    <3>1. \A k \in items : k \notin later <=> k < first
      <4> TAKE k \in items
      <4>1. first \in later /\ (k \in later => first <= k) /\ (first < k => k \in later)
        BY <2>3, <2>5, <2>12
      <4>2. first \in Int /\ k \in Int
        BY <1>1, <2>1, <4>1
      <4>3. first = k => k \in later
        BY <4>1
      <4> QED BY <4>1, <4>2, <4>3
    <3>2. y \in begun /\ \A k \in begun : k <= y
      <4>1. y \in items /\ y < first /\ \A k \in items : k < first => k <= y
        BY <2>6, <2>12
      <4>2. y \in begun
        BY <2>9, <3>1, <4>1
      <4>3. least <= y /\ least \in 1 .. n /\ y \in 1 .. n
        BY <2>1, <2>4, <4>1
      <4> QED BY <2>9, <3>1, <4>1, <4>2, <4>3
    <3>3. Max(begun) = y
      BY <1>1, <1>3, <3>2, MaxIs
    <3> QED BY <2>7, <2>12, <3>2, <3>3
  <2> QED BY <2>10, <2>11, <2>12
<1>11. \/ items = {} /\ \A k \in DOMAIN b.toc : Section(b, k) > i
       \/ \E m \in 1 .. i : /\ items = InSection(b, m) /\ InSection(b, m) # {}
                            /\ \A j \in 1 .. i : j > m => InSection(b, j) = {}
  BY <1>1, GroupedIs
<1> HIDE DEF i, items, later, begun
<1>12. CASE \E m \in 1 .. i : /\ items = InSection(b, m) /\ InSection(b, m) # {}
                             /\ \A j \in 1 .. i : j > m => InSection(b, j) = {}
  <2>1. PICK m \in 1 .. i : /\ items = InSection(b, m) /\ InSection(b, m) # {}
                           /\ \A j \in 1 .. i : j > m => InSection(b, j) = {}
    BY <1>12
  <2>2. m = i \/ m < i
    BY <1>1
  <2>3. CASE m = i
    BY <1>10, <2>1, <2>3 DEF begun
  <2>4. CASE m < i
    BY <1>9, <2>1, <2>4 DEF begun
  <2> QED BY <2>2, <2>3, <2>4
<1> QED BY <1>8, <1>11, <1>12

-----------------------------------------------------------------------------
(* The progress bar                                                           *)

IsSum(g, size, m) == g = [i \in 1 .. m |-> IF i = 1 THEN 0 ELSE g[i - 1] + size[i - 1]]

LEMMA SumAt ==
  ASSUME NEW g, NEW size, NEW m, IsSum(g, size, m)
  PROVE  \A i \in 1 .. m : g[i] = IF i = 1 THEN 0 ELSE g[i - 1] + size[i - 1]
BY SMT DEF IsSum

\* The sums of sizes are a function,
LEMMA SumExists ==
  ASSUME NEW size, NEW m \in Nat
  PROVE  \E g : IsSum(g, size, m)
<1> DEFINE B == {i \in Nat : ~\E g : IsSum(g, size, i)}
<1> SUFFICES ASSUME B # {} PROVE FALSE
  OBVIOUS
<1>1. PICK k \in B : \A x \in B : k <= x
  <2>1. B \in SUBSET Nat
    OBVIOUS
  <2> HIDE DEF B
  <2> QED BY <2>1, LeastNumber
<1>2. k # 0
  <2> DEFINE g == [i \in 1 .. 0 |-> 0]
  <2>1. g = [i \in 1 .. 0 |-> IF i = 1 THEN 0 ELSE g[i - 1] + size[i - 1]]
    OBVIOUS
  <2> HIDE DEF g
  <2>2. \E f : IsSum(f, size, 0)
    BY <2>1 DEF IsSum
  <2> QED BY <1>1, <2>2
<1>3. k \in Nat /\ k - 1 \in Nat /\ k - 1 < k
  BY <1>1, <1>2
<1>4. PICK g : IsSum(g, size, k - 1)
  <2>1. k - 1 \notin B
    BY <1>1, <1>3
  <2> QED BY <1>3, <2>1
<1> DEFINE f == [i \in 1 .. k |-> IF i < k THEN g[i] ELSE IF i = 1 THEN 0 ELSE g[i - 1] + size[i - 1]]
<1>5. \A i \in 1 .. k : f[i] = IF i = 1 THEN 0 ELSE f[i - 1] + size[i - 1]
  <2> TAKE i \in 1 .. k
  <2>1. \A j \in 1 .. k - 1 : g[j] = IF j = 1 THEN 0 ELSE g[j - 1] + size[j - 1]
    BY <1>4, SumAt
  <2>2. i < k => i \in 1 .. k - 1
    BY <1>3
  <2>3. f[i] = IF i = 1 THEN 0 ELSE g[i - 1] + size[i - 1]
    BY <2>1, <2>2
  <2>4. i # 1 => f[i - 1] = g[i - 1]
    BY <1>3
  <2> QED BY <2>3, <2>4
<1>6. IsSum(f, size, k)
  <2>1. f = [i \in 1 .. k |-> f[i]]
    OBVIOUS
  <2> HIDE DEF f
  <2>2. f = [i \in 1 .. k |-> IF i = 1 THEN 0 ELSE f[i - 1] + size[i - 1]]
    BY <1>5, <2>1
  <2> QED BY <2>2 DEF IsSum
<1> HIDE DEF f
<1> QED BY <1>1, <1>6

\* each of which adds a section to the one before.
LEMMA SizeBeforeIs ==
  ASSUME NEW b, b.size \in Seq(Nat)
  PROVE  /\ SizeBefore(b)[1] = 0
         /\ \A i \in 1 .. Len(b.size) : SizeBefore(b)[i + 1] = SizeBefore(b)[i] + b.size[i]
         /\ \A i \in 1 .. Len(b.size) + 1 : SizeBefore(b)[i] \in Nat
<1> DEFINE n == Len(b.size)
           size == b.size
           sum == SizeBefore(b)
<1>1. n \in Nat /\ \A i \in 1 .. n : size[i] \in Nat
  BY LenProperties
<1>2. IsSum(sum, size, n + 1)
  <2>1. \E g : IsSum(g, size, n + 1)
    <3>1. n + 1 \in Nat
      BY <1>1
    <3> HIDE DEF n, size
    <3> QED BY <3>1, SumExists
  <2>2. \E g : g = [i \in 1 .. Len(b.size) + 1 |-> IF i = 1 THEN 0 ELSE g[i - 1] + b.size[i - 1]]
    BY <2>1, Zenon DEF IsSum
  <2> QED BY <2>2, Zenon DEF IsSum, SizeBefore
<1> HIDE DEF n, size, sum
<1>3. \A i \in 1 .. n + 1 : sum[i] = IF i = 1 THEN 0 ELSE sum[i - 1] + size[i - 1]
  BY <1>2, SumAt
<1>4. sum[1] = 0
  <2>1. 1 \in 1 .. n + 1
    BY <1>1
  <2> QED BY <1>3, <2>1
<1>5. \A i \in 1 .. n : sum[i + 1] = sum[i] + size[i]
  <2> TAKE i \in 1 .. n
  <2>1. i + 1 \in 1 .. n + 1 /\ i + 1 # 1 /\ i + 1 - 1 = i
    BY <1>1
  <2> QED BY <1>3, <2>1
<1>6. \A i \in 1 .. n + 1 : sum[i] \in Nat
  <2> DEFINE B == {i \in 1 .. n + 1 : sum[i] \notin Nat}
  <2> SUFFICES ASSUME B # {} PROVE FALSE
    OBVIOUS
  <2>1. PICK k \in B : \A x \in B : k <= x
    <3>1. B \in SUBSET Nat
      OBVIOUS
    <3> HIDE DEF B
    <3> QED BY <3>1, LeastNumber
  <2>2. k \in 1 .. n + 1 /\ sum[k] \notin Nat
    OBVIOUS
  <2>3. k # 1
    BY <1>4, <2>2
  <2> DEFINE j == k - 1
  <2>4. j \in 1 .. n /\ j \in 1 .. n + 1 /\ j + 1 = k /\ j < k
    BY <1>1, <2>2, <2>3
  <2> HIDE DEF j
  <2>5. sum[j] \in Nat
    <3>1. j \notin B
      BY <2>1, <2>4
    <3> QED BY <2>4, <3>1
  <2>6. sum[k] = sum[j] + size[j]
    BY <1>5, <2>4
  <2> QED BY <1>1, <2>2, <2>4, <2>5, <2>6
<1> QED BY <1>4, <1>5, <1>6 DEF sum, size, n

\* The fraction of the book, n / d, that a place in a section is.
LEMMA Fraction ==
  ASSUME NEW n \in Nat, NEW d \in Nat, NEW before \in Nat, NEW size \in Nat, NEW total \in Nat
  PROVE  (before * (d * size) + (n * total - before * d) * size) * d = n * ((d * size) * total)
OBVIOUS

\* getSection and getProgress are the inverse of each other.
LEMMA SectionFound ==
  ASSUME NEW b \in Books, NEW n \in Nat, NEW d \in Nat, 0 < n, n < d
  PROVE  LET at == GetSection(b, <<n, d>>)
             found == GetProgress(b, at)
         IN  /\ found[1] * d = n * found[2]
             /\ 0 <= at.within[1] /\ at.within[1] < at.within[2]
<1> DEFINE sum == SizeBefore(b)
           size == b.size
           m == Len(size)
           total == SizeTotal(b)
           after == {i \in DOMAIN size : sum[i + 1] * d > n * total}
           at == GetSection(b, <<n, d>>)
           found == GetProgress(b, at)
<1>1. /\ m \in Nat \ {0} /\ DOMAIN size = 1 .. m /\ \A i \in 1 .. m : size[i] \in Nat
  <2>1. size \in Seq(Nat) /\ 1 \in DOMAIN size
    BY PlacesAssumption
  <2> QED BY <2>1
<1>2. /\ sum[1] = 0 /\ \A i \in 1 .. m : sum[i + 1] = sum[i] + size[i]
      /\ \A i \in 1 .. m + 1 : sum[i] \in Nat
      /\ total = sum[m + 1]
  <2>1. size \in Seq(Nat)
    BY PlacesAssumption
  <2> QED BY <2>1, SizeBeforeIs DEF SizeTotal
<1>3. found = <<sum[at.section] * at.within[2] + at.within[1] * size[at.section], at.within[2] * total>>
  BY DEF GetProgress
<1>4. /\ after = {} => at = [section |-> 1, within |-> <<0, 1>>]
      /\ after # {} => LET i == Min(after)
                       IN  at = [section |-> i, within |-> <<n * total - sum[i] * d, d * size[i]>>]
  BY DEF GetSection
<1> HIDE DEF at, found, after, sum, size, m, total
<1>5. total \in Nat
  BY <1>1, <1>2
<1>6. CASE after = {}
  <2>1. total = 0
    <3>1. SUFFICES ASSUME total > 0 PROVE FALSE
      BY <1>5
    <3>2. total * d > n * total
      BY <1>5, <3>1
    <3>3. m \in DOMAIN size /\ sum[m + 1] * d > n * total
      BY <1>1, <1>2, <3>2
    <3> QED BY <1>6, <3>3 DEF after
  <2>2. at.section = 1 /\ at.within[1] = 0 /\ at.within[2] = 1
    BY <1>4, <1>6
  <2>3. found[1] = 0 /\ found[2] = 0
    BY <1>1, <1>2, <1>3, <2>1, <2>2
  <2> QED BY <2>2, <2>3 DEF at, found
<1>7. CASE after # {}
  <2> DEFINE i == Min(after)
  <2>1. i \in after /\ \A k \in after : i <= k
    <3>1. after \subseteq 1 .. m
      BY <1>1 DEF after
    <3> QED BY <1>1, <1>7, <3>1, MaxMin
  <2>2. at.section = i /\ at.within[1] = n * total - sum[i] * d /\ at.within[2] = d * size[i]
    BY <1>4, <1>7
  <2> HIDE DEF i
  <2>3. i \in 1 .. m /\ sum[i + 1] * d > n * total
    BY <1>1, <2>1 DEF after
  <2> DEFINE s == size[i]
             before == sum[i]
  <2>4. s \in Nat /\ before \in Nat /\ (before + s) * d > n * total
    BY <1>1, <1>2, <2>3, SMTT(30)
  <2>5. before * d <= n * total
    <3>1. CASE i = 1
      <4>1. before = 0 /\ n * total >= 0
        BY <1>2, <1>5, <3>1
      <4> QED BY <4>1
    <3>2. CASE i # 1
      <4> DEFINE j == i - 1
      <4>1. j \in 1 .. m /\ j + 1 = i /\ j < i
        BY <1>1, <2>3, <3>2
      <4> HIDE DEF j
      <4>2. j \notin after
        BY <1>1, <2>1, <2>3, <4>1
      <4>3. ~(before * d > n * total)
        BY <1>1, <4>1, <4>2 DEF after
      <4>4. before * d \in Int /\ n * total \in Int
        BY <1>5, <2>4
      <4> QED BY <4>3, <4>4
    <3> QED BY <3>1, <3>2
  <2>6. found[1] = before * (d * s) + (n * total - before * d) * s /\ found[2] = (d * s) * total
    BY <1>3, <2>2
  <2> HIDE DEF s, before
  <2>7. found[1] * d = n * found[2]
    BY <1>5, <2>4, <2>6, Fraction
  <2>8. 0 <= n * total - before * d /\ n * total - before * d < d * s
    BY <1>5, <2>4, <2>5
  <2> QED BY <2>2, <2>7, <2>8 DEF at, found, s, before
<1> QED BY <1>6, <1>7

-----------------------------------------------------------------------------
(* The reader                                                                 *)

PlacesInv ==
  /\ book \in Books
  /\ left.index \in DOMAIN book.doc /\ left.to.node \in Seq(Nat)
  /\ item = TocItem(book, left)
  /\ slid.to \in Int \X (Nat \ {0}) /\ slid.at = GetSection(book, slid.to)

LEMMA InitPlaces == Init => PlacesInv
<1> SUFFICES ASSUME Init PROVE PlacesInv
  OBVIOUS
<1>1. book \in Books /\ left = Start(book) /\ item = TocItem(book, left)
  BY DEF Init
<1>2. 1 \in DOMAIN book.doc /\ book.body \in Seq(Nat)
  BY <1>1, PlacesAssumption
<1>3. left.index = 1 /\ left.to.node = book.body
  BY <1>1 DEF Start, Point
<1>4. slid.to = <<0, 1>> /\ slid.at = GetSection(book, slid.to)
  BY DEF Init
<1>5. slid.to \in Int \X (Nat \ {0})
  BY <1>4
<1> QED BY <1>1, <1>2, <1>3, <1>4, <1>5 DEF PlacesInv

LEMMA NextPlaces == PlacesInv /\ [Next]_vars => PlacesInv'
<1> SUFFICES ASSUME PlacesInv, [Next]_vars PROVE PlacesInv'
  OBVIOUS
<1>1. /\ book \in Books
      /\ left.index \in DOMAIN book.doc /\ left.to.node \in Seq(Nat)
      /\ item = TocItem(book, left)
      /\ slid.to \in Int \X (Nat \ {0}) /\ slid.at = GetSection(book, slid.to)
  BY DEF PlacesInv
<1>2. ASSUME NEW i \in DOMAIN book.doc, NEW from \in Points(book.doc[i]), NEW to \in Points(book.doc[i]),
             Relocate([index |-> i, from |-> from, to |-> to])
      PROVE  PlacesInv'
  <2> DEFINE shown == [index |-> i, from |-> from, to |-> to]
  <2>1. to.node \in Nodes(book.doc[i])
    BY DEF Points, Point
  <2>2. to.node \in Seq(Nat)
    BY <1>1, <2>1, PlacesAssumption
  <2>3. shown.index = i /\ shown.to = to
    OBVIOUS
  <2>4. left' = shown /\ item' = TocItem(book, shown) /\ book' = book /\ slid' = slid
    BY <1>2 DEF Relocate
  <2> HIDE DEF shown
  <2> QED BY <1>1, <2>2, <2>3, <2>4 DEF PlacesInv
<1>3. CASE Reopen
  BY <1>1, <1>3 DEF Reopen, PlacesInv
<1>4. ASSUME NEW fraction \in Fractions, Slide(fraction) PROVE PlacesInv'
  <2>1. slid'.to = fraction /\ slid'.at = GetSection(book, fraction) /\ UNCHANGED <<book, left, item>>
    BY <1>4 DEF Slide
  <2>2. fraction \in Int \X (Nat \ {0})
    BY PlacesAssumption
  <2> QED BY <1>1, <2>1, <2>2 DEF PlacesInv
<1>5. CASE UNCHANGED vars
  BY <1>1, <1>5 DEF vars, PlacesInv
<1> QED BY <1>2, <1>3, <1>4, <1>5 DEF Next

\* What the reader is told is what TOCProgress and SectionProgress return for the page and the
\* place of the bar, whatever happens in between.
THEOREM PlacesInvariant == Spec => []PlacesInv
<1> QED BY InitPlaces, NextPlaces, PTL DEF Spec

\* The item of the contents that the reader is told has begun, and no later one has
\* (TocItemHasBegun), for every book whose contents are in order.
THEOREM TocItemSafe == Spec => []TocItemHasBegun
<1>1. PlacesInv => TocItemHasBegun
  <2> SUFFICES ASSUME PlacesInv, ContentsInOrder(book) PROVE item = LET begun == Begun(book, left) IN IF begun = {} THEN 0 ELSE Max(begun)
    <3> DEFINE told ==
          {k \in DOMAIN book.toc :
             \/ book.toc[k].section < left.index
             \/ /\ book.toc[k].section = left.index
                /\ book.toc[k].id # << >> =>
                     \E p \in Nodes(book.doc[left.index]) :
                       NodeAt(book.doc[left.index], p).id = book.toc[k].id /\ ~BeforeNode(left.to.node, p)}
    <3>1. told = Begun(book, left)
      BY DEF Begun, Section, Elements
    <3>2. TocItemHasBegun <=> (ContentsInOrder(book) => item = IF told = {} THEN 0 ELSE Max(told))
      BY DEF TocItemHasBegun
    <3> HIDE DEF told
    <3> QED BY <3>1, <3>2
  <2> QED BY TocItemRight DEF PlacesInv
<1> QED BY <1>1, PlacesInvariant, PTL

\* The place that the progress bar leads to is in a section with text and at the fraction of the
\* book where the bar was let go (SliderFindsItsPlace), for every book and every fraction.
THEOREM SliderSafe == Spec => []SliderFindsItsPlace
<1>1. PlacesInv => SliderFindsItsPlace
  <2> SUFFICES ASSUME PlacesInv, slid.to[1] > 0, slid.to[1] < slid.to[2]
      PROVE  LET found == GetProgress(book, slid.at)
             IN  /\ found[1] * slid.to[2] = slid.to[1] * found[2]
                 /\ 0 <= slid.at.within[1] /\ slid.at.within[1] < slid.at.within[2]
    BY DEF SliderFindsItsPlace
  <2>1. PICK n \in Int, d \in Nat \ {0} : slid.to = <<n, d>>
    BY DEF PlacesInv
  <2>2. n \in Nat /\ d \in Nat /\ 0 < n /\ n < d /\ slid.to[1] = n /\ slid.to[2] = d
    BY <2>1
  <2>3. slid.at = GetSection(book, <<n, d>>) /\ book \in Books
    BY <2>1 DEF PlacesInv
  <2> QED BY <2>2, <2>3, SectionFound
<1> QED BY <1>1, PlacesInvariant, PTL

==============================================================================
