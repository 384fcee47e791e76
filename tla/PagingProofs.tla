----------------------------- MODULE PagingProofs -----------------------------
(***************************************************************************)
(* Proofs about Paging, for every number of entries in a table, every set  *)
(* of pages and every amount of memory: the tables stay a tree, careful    *)
(* callers see a partial function from pages to frames, and the processor  *)
(* uses no translation that was removed. About PagingClone: the clone maps *)
(* what was mapped, in tables of its own. The lemmas on a step allow for   *)
(* frames set apart, the tables of another address space.                  *)
(***************************************************************************)
EXTENDS PagingClone, FiniteSetTheorems, WellFoundedInduction, TLAPS

Memories == [Frames -> [Index -> Entries]]

\* Two addresses have their first n indices in common.
Agree(v, w, n) == \A k \in 1 .. n : v[k] = w[k]

\* The page of level n that contains an address.
Prefix(v, n) == [k \in 1 .. n |-> v[k]]

-----------------------------------------------------------------------------
(* Entries and the walk.                                                   *)

\* What the fields of an entry are.
LEMMA EntryFacts ==
    /\ Absent \in Entries /\ ~Absent.present
    /\ \A f, b : /\ EntryFor(f, b).present
                 /\ EntryFor(f, b).base = f
                 /\ EntryFor(f, b).page_size = b
    /\ \A f \in Frames, b \in BOOLEAN : EntryFor(f, b) \in Entries
    /\ \A e \in Entries : ~e.present => e = Absent
    /\ \A e \in Entries : e.present => /\ e.base \in Frames
                                       /\ e.page_size \in BOOLEAN
                                       /\ e = EntryFor(e.base, e.page_size)
  <1>1. Absent \in Entries /\ ~Absent.present  BY DEF Entries, Absent
  <1>2. \A f, b : /\ EntryFor(f, b).present
                  /\ EntryFor(f, b).base = f
                  /\ EntryFor(f, b).page_size = b
    BY DEF EntryFor
  <1>3. \A f \in Frames, b \in BOOLEAN : EntryFor(f, b) \in Entries  BY DEF Entries
  <1>4. ASSUME NEW e \in Entries
        PROVE  \/ e = Absent
               \/ \E f \in Frames, b \in BOOLEAN : e = EntryFor(f, b)
    BY DEF Entries
  <1>5. ASSUME NEW e \in Entries, ~e.present PROVE e = Absent
    BY <1>2, <1>4, <1>5
  <1>6. ASSUME NEW e \in Entries, e.present
        PROVE  /\ e.base \in Frames
               /\ e.page_size \in BOOLEAN
               /\ e = EntryFor(e.base, e.page_size)
    <2>1. PICK f \in Frames, b \in BOOLEAN : e = EntryFor(f, b)  BY <1>1, <1>4, <1>6
    <2> QED  BY <1>2, <2>1
  <1> QED  BY <1>1, <1>2, <1>3, <1>5, <1>6

\* No frame is None, and no data frame a table.
LEMMA FrameFacts ==
    /\ None \notin Frames
    /\ TableFrames \subseteq Frames /\ DataFrames \subseteq Frames
    /\ TableFrames \cap DataFrames = {}
  BY FramesAssumption DEF Frames, None, NULL

\* An entry that is absent leads nowhere, one that is a page neither.
LEMMA BelowFacts ==
    /\ \A n \in 1 .. 4 : Below(n, Absent) = None /\ ~IsPage(n, Absent)
    /\ \A n, e : IsPage(n, e) => Below(n, e) = None /\ e.present
    /\ \A n, e : Below(n, e) # None => e.present /\ e.base = Below(n, e)
    /\ \A n, e : e.present => IsPage(n, e) \/ Below(n, e) = e.base
  BY EntryFacts DEF Below, IsPage

\* The page size bit is set exactly for the pages that are not 4 kB.
LEMMA LeafIsPage ==
    ASSUME NEW L \in 2 .. 4, NEW f
    PROVE  IsPage(L, EntryFor(f, L < 4))
  <1>1. PICK e : e = EntryFor(f, L < 4)  OBVIOUS
  <1>2. e.present /\ e.page_size = (L < 4)  BY <1>1, EntryFacts
  <1>3. L = 4 \/ (L > 1 /\ L < 4)  OBVIOUS
  <1>4. IsPage(L, e)  BY <1>2, <1>3 DEF IsPage
  <1> QED  BY <1>1, <1>4

\* The walk goes down one level by one entry.
LEMMA TableStep ==
    ASSUME NEW m, NEW r, NEW v
    PROVE  /\ TableAt(m, r, v, 0) = r
           /\ \A n \in 1 .. 3 : TableAt(m, r, v, n) = Below(n, EntryAt(m, r, v, n))
           /\ \A n \in 1 .. 4 : EntryAt(m, r, v, n) = EntryIn(m, TableAt(m, r, v, n - 1), v[n])
  <1>1. \A n \in 1 .. 4 : EntryAt(m, r, v, n) = EntryIn(m, TableAt(m, r, v, n - 1), v[n])
    BY DEF EntryAt
  <1>2. TableAt(m, r, v, 1 - 1) = TableAt(m, r, v, 0) /\ TableAt(m, r, v, 0) = r
    BY DEF TableAt
  <1>3. TableAt(m, r, v, 1) = Below(1, EntryAt(m, r, v, 1))
    BY <1>1, <1>2 DEF TableAt
  <1>4. TableAt(m, r, v, 2) = Below(2, EntryAt(m, r, v, 2))
    <2>1. 2 - 1 = 1  OBVIOUS
    <2> QED  BY <1>1, <1>3, <1>2, <2>1 DEF TableAt
  <1>5. TableAt(m, r, v, 3) = Below(3, EntryAt(m, r, v, 3))
    <2>1. 3 - 1 = 2  OBVIOUS
    <2> QED  BY <1>1, <1>2, <1>3, <1>4, <2>1 DEF TableAt
  <1>6. \A n \in 1 .. 3 : n = 1 \/ n = 2 \/ n = 3  OBVIOUS
  <1> QED  BY <1>1, <1>2, <1>3, <1>4, <1>5, <1>6

\* Below a place without a table there is nothing.
LEMMA NothingBelow ==
    ASSUME NEW m, NEW r, NEW v, NEW j \in 0 .. 3, TableAt(m, r, v, j) = None
    PROVE  /\ \A n \in j .. 3 : TableAt(m, r, v, n) = None
           /\ \A n \in j + 1 .. 4 : EntryAt(m, r, v, n) = Absent
  <1>1. \A n \in 1 .. 4 : TableAt(m, r, v, n - 1) = None => EntryAt(m, r, v, n) = Absent
    BY TableStep DEF EntryIn
  <1>2. \A n \in 1 .. 3 : TableAt(m, r, v, n - 1) = None => TableAt(m, r, v, n) = None
    BY <1>1, TableStep, BelowFacts
  <1>3. \A n \in j .. 3 : TableAt(m, r, v, n) = None
    <2>1. 0 >= j => TableAt(m, r, v, 0) = None  OBVIOUS
    <2>2. 1 >= j => TableAt(m, r, v, 1) = None
      <3>1. 1 - 1 = 0  OBVIOUS
      <3> QED  BY <1>2, <2>1, <3>1
    <2>3. 2 >= j => TableAt(m, r, v, 2) = None
      <3>1. 2 - 1 = 1  OBVIOUS
      <3> QED  BY <1>2, <2>2, <3>1
    <2>4. 3 >= j => TableAt(m, r, v, 3) = None
      <3>1. 3 - 1 = 2  OBVIOUS
      <3> QED  BY <1>2, <2>3, <3>1
    <2> QED  BY <2>1, <2>2, <2>3, <2>4
  <1> QED  BY <1>1, <1>3

\* Addresses with the same indices lead to the same tables and entries.
LEMMA AgreeSame ==
    ASSUME NEW m, NEW r, NEW v, NEW w, NEW j \in 0 .. 4, Agree(v, w, j)
    PROVE  /\ \A n \in 0 .. 3 : n <= j => TableAt(m, r, v, n) = TableAt(m, r, w, n)
           /\ \A n \in 1 .. 4 : n <= j => EntryAt(m, r, v, n) = EntryAt(m, r, w, n)
  <1>1. \A n \in 1 .. 4 : n <= j /\ TableAt(m, r, v, n - 1) = TableAt(m, r, w, n - 1)
                          => EntryAt(m, r, v, n) = EntryAt(m, r, w, n)
    BY TableStep DEF Agree
  <1>2. \A n \in 1 .. 3 : n <= j /\ TableAt(m, r, v, n - 1) = TableAt(m, r, w, n - 1)
                          => TableAt(m, r, v, n) = TableAt(m, r, w, n)
    BY <1>1, TableStep
  <1>3. \A n \in 0 .. 3 : n <= j => TableAt(m, r, v, n) = TableAt(m, r, w, n)
    <2>1. TableAt(m, r, v, 0) = TableAt(m, r, w, 0)  BY TableStep
    <2>2. 1 <= j => TableAt(m, r, v, 1) = TableAt(m, r, w, 1)
      <3>1. 1 - 1 = 0  OBVIOUS
      <3> QED  BY <1>2, <2>1, <3>1
    <2>3. 2 <= j => TableAt(m, r, v, 2) = TableAt(m, r, w, 2)
      <3>1. 2 - 1 = 1  OBVIOUS
      <3> QED  BY <1>2, <2>2, <3>1
    <2>4. 3 <= j => TableAt(m, r, v, 3) = TableAt(m, r, w, 3)
      <3>1. 3 - 1 = 2  OBVIOUS
      <3> QED  BY <1>2, <2>3, <3>1
    <2> QED  BY <2>1, <2>2, <2>3, <2>4
  <1> QED  BY <1>1, <1>3

-----------------------------------------------------------------------------
(* What is kept true of the tables, also between the steps of an operation. *)

\* Tables are frames taken from the PMM, ...
TablesInUse(m, r, fr) ==
    \A v \in Addresses, n \in 0 .. 3 :
      TableAt(m, r, v, n) # None => TableAt(m, r, v, n) \in TableFrames \ fr

\* ... each of which serves one place, ...
OnePlaceEach(m, r) ==
    \A v, w \in Addresses : \A j, k \in 0 .. 3 :
      TableAt(m, r, v, j) # None /\ TableAt(m, r, v, j) = TableAt(m, r, w, k)
        => j = k /\ Agree(v, w, j)

\* ... and none is lost.
NoneLost(m, r, fr) ==
    \A f \in TableFrames \ fr : \E v \in Addresses, n \in 0 .. 3 : TableAt(m, r, v, n) = f

\* What is mapped is one of the callers' pages, to one of their frames.
PagesAreCallers(m, r) ==
    \A v \in Addresses, n \in 1 .. 4 : IsPage(n, EntryAt(m, r, v, n)) =>
      /\ Prefix(v, n) \in Pages
      /\ EntryAt(m, r, v, n).base \in DataFrames

Tree(m, r, fr) == /\ m \in Memories
                  /\ fr \subseteq TableFrames
                  /\ r \in TableFrames
                  /\ TablesInUse(m, r, fr)
                  /\ OnePlaceEach(m, r)
                  /\ NoneLost(m, r, fr)
                  /\ PagesAreCallers(m, r)

\* No table but the PML4 is empty, with the exception of one.
NoneEmptyBut(m, r, f) ==
    \A v \in Addresses, n \in 1 .. 3 :
      TableAt(m, r, v, n) \notin {None, f} => \E i \in Index : m[TableAt(m, r, v, n)][i].present

\* Memory has changed at one entry of a table in use, if it has changed in tables at all.
ChangedOnlyAt(m, m2, r, v, k) ==
    \A w \in Addresses, n \in 0 .. 3, i \in Index :
      /\ TableAt(m, r, w, n) # None
      /\ ~(TableAt(m, r, w, n) = TableAt(m, r, v, k - 1) /\ i = v[k])
      => m2[TableAt(m, r, w, n)][i] = m[TableAt(m, r, w, n)][i]

\* Then the walk changes from that entry on only.
LEMMA WalkElsewhere ==
    ASSUME NEW m, NEW m2, NEW r, NEW v \in Addresses, NEW k \in 1 .. 4,
           OnePlaceEach(m, r), ChangedOnlyAt(m, m2, r, v, k)
    PROVE  \A w \in Addresses :
             /\ \A n \in 0 .. 3 : n < k \/ ~Agree(w, v, k) =>
                  TableAt(m2, r, w, n) = TableAt(m, r, w, n)
             /\ \A n \in 1 .. 4 : n < k \/ ~Agree(w, v, k) =>
                  EntryAt(m2, r, w, n) = EntryAt(m, r, w, n)
  <1> SUFFICES ASSUME NEW w \in Addresses
               PROVE  /\ \A n \in 0 .. 3 : n < k \/ ~Agree(w, v, k) =>
                           TableAt(m2, r, w, n) = TableAt(m, r, w, n)
                      /\ \A n \in 1 .. 4 : n < k \/ ~Agree(w, v, k) =>
                           EntryAt(m2, r, w, n) = EntryAt(m, r, w, n)
    OBVIOUS
  <1>1. ASSUME NEW n \in 1 .. 4, n < k \/ ~Agree(w, v, k),
               TableAt(m2, r, w, n - 1) = TableAt(m, r, w, n - 1)
        PROVE  EntryAt(m2, r, w, n) = EntryAt(m, r, w, n)
    <2> DEFINE f == TableAt(m, r, w, n - 1)
    <2>1. CASE f = None  BY <1>1, <2>1, TableStep DEF EntryIn
    <2>2. CASE f # None
      <3>1. n - 1 \in 0 .. 3 /\ k - 1 \in 0 .. 3 /\ w[n] \in Index  BY DEF Addresses
      <3>2. ~(f = TableAt(m, r, v, k - 1) /\ w[n] = v[k])
        <4> SUFFICES ASSUME f = TableAt(m, r, v, k - 1), w[n] = v[k] PROVE FALSE
          OBVIOUS
        <4>1. n - 1 = k - 1 /\ Agree(w, v, n - 1)
          BY <2>2, <3>1 DEF OnePlaceEach
        <4>2. n = k  BY <4>1
        <4>3. Agree(w, v, k)  BY <4>1, <4>2 DEF Agree
        <4> QED  BY <1>1, <4>2, <4>3
      <3>3. m2[f][w[n]] = m[f][w[n]]
        BY <2>2, <3>1, <3>2 DEF ChangedOnlyAt
      <3> QED  BY <1>1, <2>2, <3>3, TableStep DEF EntryIn
    <2> QED  BY <2>1, <2>2
  <1>2. \A n \in 1 .. 3 : /\ n < k \/ ~Agree(w, v, k)
                          /\ TableAt(m2, r, w, n - 1) = TableAt(m, r, w, n - 1)
                          => TableAt(m2, r, w, n) = TableAt(m, r, w, n)
    BY <1>1, TableStep
  <1>3. \A n \in 0 .. 3 : n < k \/ ~Agree(w, v, k) => TableAt(m2, r, w, n) = TableAt(m, r, w, n)
    <2>1. TableAt(m2, r, w, 0) = TableAt(m, r, w, 0)  BY TableStep
    <2>2. 1 < k \/ ~Agree(w, v, k) => TableAt(m2, r, w, 1) = TableAt(m, r, w, 1)
      <3>1. 1 - 1 = 0  OBVIOUS
      <3> QED  BY <1>2, <2>1, <3>1
    <2>3. 2 < k \/ ~Agree(w, v, k) => TableAt(m2, r, w, 2) = TableAt(m, r, w, 2)
      <3>1. 2 - 1 = 1  OBVIOUS
      <3> QED  BY <1>2, <2>2, <3>1
    <2>4. 3 < k \/ ~Agree(w, v, k) => TableAt(m2, r, w, 3) = TableAt(m, r, w, 3)
      <3>1. 3 - 1 = 2  OBVIOUS
      <3> QED  BY <1>2, <2>3, <3>1
    <2> QED  BY <2>1, <2>2, <2>3, <2>4
  <1>4. \A n \in 1 .. 4 : n < k \/ ~Agree(w, v, k) =>
          TableAt(m2, r, w, n - 1) = TableAt(m, r, w, n - 1)
    BY <1>3
  <1> QED  BY <1>1, <1>3, <1>4

\* At the entry itself the walk finds what was written.
LEMMA WalkHere ==
    ASSUME NEW m, NEW m2, NEW r, NEW v \in Addresses, NEW k \in 1 .. 4,
           OnePlaceEach(m, r), ChangedOnlyAt(m, m2, r, v, k),
           TableAt(m, r, v, k - 1) # None,
           NEW w \in Addresses, Agree(w, v, k)
    PROVE  /\ EntryAt(m2, r, w, k) = m2[TableAt(m, r, v, k - 1)][v[k]]
           /\ EntryAt(m, r, w, k) = m[TableAt(m, r, v, k - 1)][v[k]]
  <1>1. k - 1 \in 0 .. 3 /\ k - 1 < k /\ w[k] = v[k]  BY DEF Agree
  <1>2. TableAt(m2, r, w, k - 1) = TableAt(m, r, w, k - 1)  BY <1>1, WalkElsewhere
  <1>3. TableAt(m, r, w, k - 1) = TableAt(m, r, v, k - 1)
    <2>1. k - 1 <= k /\ k \in 0 .. 4  OBVIOUS
    <2> QED  BY <1>1, <2>1, AgreeSame
  <1> QED  BY <1>1, <1>2, <1>3, TableStep DEF EntryIn

\* A table without a present entry, or none.
Bare(m, f) == f # None => f \in Frames /\ \A i \in Index : ~m[f][i].present

\* Nothing is found below a bare table.
LEMMA BareFacts ==
    ASSUME NEW m \in Memories, NEW r, NEW w \in Addresses, NEW k \in 1 .. 3, Bare(m, TableAt(m, r, w, k))
    PROVE  /\ \A n \in k + 1 .. 3 : TableAt(m, r, w, n) = None
           /\ \A n \in k + 1 .. 4 : EntryAt(m, r, w, n) = Absent
  <1>1. CASE TableAt(m, r, w, k) = None
    <2>1. k \in 0 .. 3  OBVIOUS
    <2> QED  BY <1>1, <2>1, NothingBelow
  <1>2. CASE TableAt(m, r, w, k) # None
    <2>1. k + 1 \in 1 .. 4 /\ (k + 1) - 1 = k /\ w[k + 1] \in Index  BY DEF Addresses
    <2>2. /\ ~m[TableAt(m, r, w, k)][w[k + 1]].present
          /\ m[TableAt(m, r, w, k)][w[k + 1]] \in Entries
      BY <1>2, <2>1 DEF Bare, Memories
    <2>3. EntryAt(m, r, w, k + 1) = Absent
      BY <1>2, <2>1, <2>2, EntryFacts, TableStep DEF EntryIn
    <2>4. CASE k = 3  BY <2>3, <2>4
    <2>5. CASE k # 3
      <3>1. k + 1 \in 1 .. 3 /\ k + 1 \in 0 .. 3  BY <2>5
      <3>2. TableAt(m, r, w, k + 1) = None  BY <2>1, <2>3, <3>1, TableStep, BelowFacts
      <3> QED  BY <2>3, <3>1, <3>2, NothingBelow
    <2> QED  BY <2>4, <2>5
  <1> QED  BY <1>1, <1>2

\* The entry of level k has changed, and leads elsewhere; other entries have not.
Redirected(m, m2, r, v, k, table, e) ==
    \A w \in Addresses :
      /\ \A n \in 0 .. 3 : TableAt(m2, r, w, n) =
           IF Agree(w, v, k) /\ n = k THEN table ELSE TableAt(m, r, w, n)
      /\ \A n \in 1 .. 4 : EntryAt(m2, r, w, n) =
           IF Agree(w, v, k) /\ n = k THEN e ELSE EntryAt(m, r, w, n)

\* A write to one entry, which led to nothing below a bare table and now does again,
\* changes nothing else that a walk finds.
LEMMA EntryWritten ==
    ASSUME NEW m \in Memories, NEW m2 \in Memories, NEW r, NEW v \in Addresses, NEW k \in 1 .. 4,
           OnePlaceEach(m, r), ChangedOnlyAt(m, m2, r, v, k),
           TableAt(m, r, v, k - 1) # None,
           NEW e, m2[TableAt(m, r, v, k - 1)][v[k]] = e,
           k # 4 => Bare(m, TableAt(m, r, v, k)) /\ Bare(m2, Below(k, e))
    PROVE  Redirected(m, m2, r, v, k, Below(k, e), e)
  <1> SUFFICES ASSUME NEW w \in Addresses
               PROVE  /\ \A n \in 0 .. 3 : TableAt(m2, r, w, n) =
                           IF Agree(w, v, k) /\ n = k THEN Below(k, e) ELSE TableAt(m, r, w, n)
                      /\ \A n \in 1 .. 4 : EntryAt(m2, r, w, n) =
                           IF Agree(w, v, k) /\ n = k THEN e ELSE EntryAt(m, r, w, n)
    BY DEF Redirected
  <1>1. CASE ~Agree(w, v, k)  BY <1>1, WalkElsewhere
  <1>2. CASE Agree(w, v, k)
    <2>1. EntryAt(m2, r, w, k) = e  BY <1>2, WalkHere
    <2>2. CASE k = 4
      <3>1. \A n \in 0 .. 3 : n < k  BY <2>2
      <3>2. \A n \in 1 .. 4 : n < k \/ n = k  BY <2>2
      <3> QED  BY <2>1, <2>2, <3>1, <3>2, WalkElsewhere
    <2>3. CASE k # 4
      <3>1. k \in 1 .. 3 /\ k \in 0 .. 3 /\ k \in 0 .. 4  BY <2>3
      <3>2. TableAt(m2, r, w, k) = Below(k, e)  BY <2>1, <3>1, TableStep
      <3>3. TableAt(m, r, w, k) = TableAt(m, r, v, k)  BY <1>2, <3>1, AgreeSame
      <3>4. /\ \A n \in k + 1 .. 3 : TableAt(m, r, w, n) = None /\ TableAt(m2, r, w, n) = None
            /\ \A n \in k + 1 .. 4 : EntryAt(m, r, w, n) = Absent /\ EntryAt(m2, r, w, n) = Absent
        BY <2>3, <3>1, <3>2, <3>3, BareFacts
      <3>5. \A n \in 0 .. 4 : n < k \/ n = k \/ n \in k + 1 .. 4  OBVIOUS
      <3>6. \A n \in 0 .. 3 : n < k \/ n = k \/ n \in k + 1 .. 3  OBVIOUS
      <3>7. \A n \in 0 .. 3 : TableAt(m2, r, w, n) = IF n = k THEN Below(k, e) ELSE TableAt(m, r, w, n)
        BY <3>2, <3>4, <3>6, WalkElsewhere
      <3>8. \A n \in 1 .. 4 : EntryAt(m2, r, w, n) = IF n = k THEN e ELSE EntryAt(m, r, w, n)
        BY <2>1, <3>4, <3>5, WalkElsewhere
      <3> QED  BY <1>2, <3>7, <3>8
    <2> QED  BY <2>2, <2>3
  <1> QED  BY <1>1, <1>2

-----------------------------------------------------------------------------
(* The writes the operations are made of.                                  *)

\* One entry of memory is written.
Written(m, t, i, e) == [m EXCEPT ![t][i] = e]

\* A frame is zeroed.
Zeroed(m, f) == [m EXCEPT ![f] = EmptyTable]

\* Memory m2 is m with the entry e at index i of frame t.
OnlyEntry(m, m2, t, i, e) ==
    /\ m2 \in Memories
    /\ m2[t][i] = e
    /\ \A f \in Frames, j \in Index : f # t \/ j # i => m2[f][j] = m[f][j]
    /\ \A f \in Frames \ {t} : m2[f] = m[f]

\* That is what a write does.
LEMMA OneEntry ==
    ASSUME NEW m \in Memories, NEW t \in Frames, NEW i \in Index, NEW e \in Entries
    PROVE  OnlyEntry(m, Written(m, t, i, e), t, i, e)
  BY DEF Memories, Written, OnlyEntry

\* The tables that serve the same place or another.
LEMMA TreeFacts ==
    ASSUME NEW m, NEW r, NEW fr, Tree(m, r, fr)
    PROVE  /\ \A w \in Addresses, n \in 0 .. 3 :
                TableAt(m, r, w, n) # None => TableAt(m, r, w, n) \in Frames
           /\ \A w \in Addresses, n \in 1 .. 4 : w[n] \in Index /\ n - 1 \in 0 .. 3
           /\ \A w \in Addresses, n \in 1 .. 4 : EntryAt(m, r, w, n) \in Entries
           /\ r \in TableFrames \ fr
  <1>1. \A w \in Addresses, n \in 0 .. 3 :
          TableAt(m, r, w, n) # None => TableAt(m, r, w, n) \in Frames
    BY FrameFacts DEF Tree, TablesInUse
  <1>2. \A w \in Addresses, n \in 1 .. 4 : w[n] \in Index /\ n - 1 \in 0 .. 3
    BY DEF Addresses
  <1>3. \A w \in Addresses, n \in 1 .. 4 : EntryAt(m, r, w, n) \in Entries
    <2> TAKE w \in Addresses, n \in 1 .. 4
    <2>1. EntryAt(m, r, w, n) = EntryIn(m, TableAt(m, r, w, n - 1), w[n])  BY TableStep
    <2>2. m \in Memories  BY DEF Tree
    <2> QED  BY <1>1, <1>2, <2>1, <2>2, EntryFacts DEF EntryIn, Memories
  <1>4. r \in TableFrames \ fr
    <2>1. PICK i : i \in Index  BY IndexAssumption
    <2>2. [n \in 1 .. 4 |-> i] \in Addresses  BY <2>1 DEF Addresses
    <2>3. TableAt(m, r, [n \in 1 .. 4 |-> i], 0) = r  BY TableStep
    <2>4. r # None  BY FrameFacts DEF Tree
    <2> QED  BY <2>2, <2>3, <2>4 DEF Tree, TablesInUse
  <1> QED  BY <1>1, <1>2, <1>3, <1>4

\* Memory m2 is m with another entry of level k that leads to no table.
LeafChanged(m, m2, r, fr, v, k, e) ==
    /\ Tree(m2, r, fr)
    /\ \A f \in Frames \ {TableAt(m, r, v, k - 1)} : m2[f] = m[f]
    /\ \A f \in Frames, i \in Index :
         m2[f][i] = IF f = TableAt(m, r, v, k - 1) /\ i = v[k] THEN e ELSE m[f][i]
    /\ \A w \in Addresses :
         /\ \A n \in 0 .. 3 : TableAt(m2, r, w, n) = TableAt(m, r, w, n)
         /\ \A n \in 1 .. 4 : EntryAt(m2, r, w, n) =
              IF Agree(w, v, k) /\ n = k THEN e ELSE EntryAt(m, r, w, n)

\* A page is entered into a table or removed.
LEMMA LeafWritten ==
    ASSUME NEW m, NEW r, NEW fr, Tree(m, r, fr),
           NEW v \in Addresses, NEW k \in 1 .. 4, TableAt(m, r, v, k - 1) # None,
           k # 4 => TableAt(m, r, v, k) = None,
           NEW e \in Entries, Below(k, e) = None,
           IsPage(k, e) => Prefix(v, k) \in Pages /\ e.base \in DataFrames,
           NEW m2, m2 = Written(m, TableAt(m, r, v, k - 1), v[k], e)
    PROVE  LeafChanged(m, m2, r, fr, v, k, e)
  <1>t. PICK t : t = TableAt(m, r, v, k - 1)  OBVIOUS
  <1>0. m2 = Written(m, t, v[k], e) /\ t # None  BY <1>t
  <1>1. /\ t \in Frames /\ t \in TableFrames /\ v[k] \in Index /\ m \in Memories
        /\ k - 1 \in 0 .. 3 /\ OnePlaceEach(m, r)
    BY <1>t, <1>0, TreeFacts DEF Tree, TablesInUse
  <1>2. /\ m2 \in Memories
        /\ m2[t][v[k]] = e
        /\ \A f \in Frames, j \in Index : f # t \/ j # v[k] => m2[f][j] = m[f][j]
        /\ \A f \in Frames \ {t} : m2[f] = m[f]
    <2>1. OnlyEntry(m, m2, t, v[k], e)  BY <1>0, <1>1, OneEntry
    <2> QED  BY <2>1 DEF OnlyEntry
  <1>3. ChangedOnlyAt(m, m2, r, v, k)  BY <1>2, <1>t, TreeFacts DEF ChangedOnlyAt
  <1>4. k # 4 => Bare(m, TableAt(m, r, v, k)) /\ Bare(m2, Below(k, e))  BY DEF Bare
  <1>5. \A w \in Addresses :
          /\ \A n \in 0 .. 3 : TableAt(m2, r, w, n) =
               IF Agree(w, v, k) /\ n = k THEN Below(k, e) ELSE TableAt(m, r, w, n)
          /\ \A n \in 1 .. 4 : EntryAt(m2, r, w, n) =
               IF Agree(w, v, k) /\ n = k THEN e ELSE EntryAt(m, r, w, n)
    <2>1. m2[TableAt(m, r, v, k - 1)][v[k]] = e  BY <1>2, <1>t
    <2>2. Redirected(m, m2, r, v, k, Below(k, e), e)
      BY <1>1, <1>2, <1>3, <1>4, <2>1, EntryWritten
    <2> QED  BY <2>2 DEF Redirected
  <1>6. \A w \in Addresses, n \in 0 .. 3 : TableAt(m2, r, w, n) = TableAt(m, r, w, n)
    <2> TAKE w \in Addresses, n \in 0 .. 3
    <2>1. CASE Agree(w, v, k) /\ n = k
      <3>1. k \in 0 .. 4 /\ k \in 0 .. 3 /\ k # 4  BY <2>1
      <3>2. TableAt(m, r, w, k) = TableAt(m, r, v, k)  BY <2>1, <3>1, AgreeSame
      <3> QED  BY <2>1, <3>1, <3>2, <1>5
    <2>2. CASE ~(Agree(w, v, k) /\ n = k)  BY <2>2, <1>5
    <2> QED  BY <2>1, <2>2
  <1>7. PagesAreCallers(m2, r)
    <2> SUFFICES ASSUME NEW w \in Addresses, NEW n \in 1 .. 4, IsPage(n, EntryAt(m2, r, w, n))
                 PROVE  Prefix(w, n) \in Pages /\ EntryAt(m2, r, w, n).base \in DataFrames
      BY DEF PagesAreCallers
    <2>1. CASE Agree(w, v, k) /\ n = k
      <3>1. Prefix(w, n) = Prefix(v, k)  BY <2>1 DEF Prefix, Agree
      <3> QED  BY <1>5, <2>1, <3>1
    <2>2. CASE ~(Agree(w, v, k) /\ n = k)  BY <1>5, <2>2 DEF Tree, PagesAreCallers
    <2> QED  BY <2>1, <2>2
  <1>8. Tree(m2, r, fr)
    BY <1>2, <1>6, <1>7 DEF Tree, TablesInUse, OnePlaceEach, NoneLost
  <1>9. \A f \in Frames \ {TableAt(m, r, v, k - 1)} : m2[f] = m[f]  BY <1>1, <1>2, <1>t
  <1>10. \A f \in Frames, i \in Index :
           m2[f][i] = IF f = TableAt(m, r, v, k - 1) /\ i = v[k] THEN e ELSE m[f][i]
    BY <1>1, <1>2, <1>t
  <1> QED  BY <1>5, <1>6, <1>8, <1>9, <1>10 DEF LeafChanged

\* Memory m2 is m with a frame from the PMM as the table of level k + 1.
Linked(m, m2, r, fr, v, k, new) ==
    /\ Tree(m2, r, fr \ {new})
    /\ m2[new] = EmptyTable
    /\ \A f \in Frames \ TableFrames : m2[f] = m[f]
    /\ m2[TableAt(m, r, v, k - 1)][v[k]].present
    /\ \A f \in Frames \ {new, TableAt(m, r, v, k - 1)} : m2[f] = m[f]
    /\ Redirected(m, m2, r, v, k, new, EntryFor(new, FALSE))

\* Zeroing a frame of the PMM and entering it makes it a table.
LEMMA TableLinked ==
    ASSUME NEW m, NEW r, NEW fr, Tree(m, r, fr),
           NEW v \in Addresses, NEW k \in 1 .. 3, TableAt(m, r, v, k - 1) # None,
           ~EntryAt(m, r, v, k).present,
           NEW new \in fr,
           NEW m2, m2 = Written(Zeroed(m, new), TableAt(m, r, v, k - 1), v[k], EntryFor(new, FALSE))
    PROVE  Linked(m, m2, r, fr, v, k, new)
  <1>t. PICK t : t = TableAt(m, r, v, k - 1)  OBVIOUS
  <1>e. PICK e : e = EntryFor(new, FALSE)  OBVIOUS
  <1>m. PICK m1 : m1 = Zeroed(m, new)  OBVIOUS
  <1>1. /\ t \in Frames /\ t # None /\ t \in TableFrames \ fr /\ v[k] \in Index /\ m \in Memories
        /\ k \in 1 .. 4 /\ k - 1 \in 0 .. 3 /\ OnePlaceEach(m, r)
    BY <1>t, TreeFacts DEF Tree, TablesInUse
  <1>2. new \in TableFrames /\ new \in Frames /\ new # None /\ new # t
    BY <1>1, FrameFacts DEF Tree
  <1>3. /\ e \in Entries /\ e.present /\ ~e.page_size /\ e.base = new
        /\ EmptyTable \in [Index -> Entries] /\ \A i \in Index : ~EmptyTable[i].present
    BY <1>2, <1>e, EntryFacts DEF EmptyTable
  <1>4. m1 \in Memories /\ m1[new] = EmptyTable /\ \A f \in Frames \ {new} : m1[f] = m[f]
    BY <1>1, <1>2, <1>3, <1>m DEF Memories, Zeroed
  <1>5. m2 = Written(m1, t, v[k], e)  BY <1>t, <1>e, <1>m
  <1>6. /\ m2 \in Memories
        /\ m2[t][v[k]] = e
        /\ \A f \in Frames, j \in Index : f # t \/ j # v[k] => m2[f][j] = m1[f][j]
        /\ \A f \in Frames \ {t} : m2[f] = m1[f]
    <2>1. m1 \in Memories /\ t \in Frames /\ v[k] \in Index /\ e \in Entries
      BY <1>1, <1>3, <1>4
    <2>2. OnlyEntry(m1, Written(m1, t, v[k], e), t, v[k], e)  BY <2>1, OneEntry
    <2> QED  BY <1>5, <2>2 DEF OnlyEntry
  <1>7. m2[new] = EmptyTable  BY <1>2, <1>4, <1>6
  <1>8. ChangedOnlyAt(m, m2, r, v, k)
    <2>1. \A w \in Addresses, n \in 0 .. 3 :
            TableAt(m, r, w, n) # None => TableAt(m, r, w, n) \in Frames \ {new}
      BY TreeFacts DEF Tree, TablesInUse
    <2> SUFFICES ASSUME NEW w \in Addresses, NEW n \in 0 .. 3, NEW i \in Index,
                        TableAt(m, r, w, n) # None, ~(TableAt(m, r, w, n) = t /\ i = v[k])
                 PROVE  m2[TableAt(m, r, w, n)][i] = m[TableAt(m, r, w, n)][i]
      BY <1>t DEF ChangedOnlyAt
    <2>2. m2[TableAt(m, r, w, n)][i] = m1[TableAt(m, r, w, n)][i]  BY <1>6, <2>1
    <2>3. m1[TableAt(m, r, w, n)] = m[TableAt(m, r, w, n)]  BY <1>4, <2>1
    <2> QED  BY <2>2, <2>3
  <1>9. TableAt(m, r, v, k) = None
    <2>1. EntryAt(m, r, v, k) = Absent  BY <1>1, TreeFacts, EntryFacts
    <2> QED  BY <1>1, <2>1, TableStep, BelowFacts
  <1>10. ~IsPage(k, e) /\ Below(k, e) = new  BY <1>3 DEF Below, IsPage
  <1>11. Bare(m, TableAt(m, r, v, k)) /\ Bare(m2, Below(k, e))
    BY <1>2, <1>3, <1>7, <1>9, <1>10 DEF Bare
  <1>12. \A w \in Addresses :
          /\ \A n \in 0 .. 3 : TableAt(m2, r, w, n) =
               IF Agree(w, v, k) /\ n = k THEN new ELSE TableAt(m, r, w, n)
          /\ \A n \in 1 .. 4 : EntryAt(m2, r, w, n) =
               IF Agree(w, v, k) /\ n = k THEN e ELSE EntryAt(m, r, w, n)
    <2>1. m2[TableAt(m, r, v, k - 1)][v[k]] = e  BY <1>6, <1>t
    <2>2. /\ m \in Memories /\ m2 \in Memories /\ k \in 1 .. 4 /\ OnePlaceEach(m, r)
          /\ TableAt(m, r, v, k - 1) # None
      BY <1>1, <1>6
    <2>3. Redirected(m, m2, r, v, k, Below(k, e), e)
      <3>1. k # 4 => Bare(m, TableAt(m, r, v, k)) /\ Bare(m2, Below(k, e))  BY <1>11
      <3> QED  BY <1>8, <2>1, <2>2, <3>1, EntryWritten
    <2> QED  BY <1>10, <2>3 DEF Redirected
  <1>13. TablesInUse(m2, r, fr \ {new})
    <2> SUFFICES ASSUME NEW w \in Addresses, NEW n \in 0 .. 3, TableAt(m2, r, w, n) # None
                 PROVE  TableAt(m2, r, w, n) \in TableFrames \ (fr \ {new})
      BY DEF TablesInUse
    <2>1. TableAt(m2, r, w, n) = new \/ TableAt(m2, r, w, n) = TableAt(m, r, w, n)  BY <1>12
    <2>2. TableAt(m, r, w, n) # None => TableAt(m, r, w, n) \in TableFrames \ fr
      BY DEF Tree, TablesInUse
    <2> QED  BY <1>2, <2>1, <2>2
  <1>14. OnePlaceEach(m2, r)
    <2> SUFFICES ASSUME NEW u \in Addresses, NEW w \in Addresses, NEW j \in 0 .. 3, NEW n \in 0 .. 3,
                        TableAt(m2, r, u, j) # None, TableAt(m2, r, u, j) = TableAt(m2, r, w, n)
                 PROVE  j = n /\ Agree(u, w, j)
      BY DEF OnePlaceEach
    <2>1. \A x \in Addresses, n0 \in 0 .. 3 : TableAt(m, r, x, n0) # new
      BY <1>2 DEF Tree, TablesInUse
    <2>2. CASE TableAt(m2, r, u, j) = new
      <3>1. /\ TableAt(m2, r, u, j) = IF Agree(u, v, k) /\ j = k THEN new ELSE TableAt(m, r, u, j)
            /\ TableAt(m2, r, w, n) = IF Agree(w, v, k) /\ n = k THEN new ELSE TableAt(m, r, w, n)
        BY <1>12
      <3>2. Agree(u, v, k) /\ j = k /\ Agree(w, v, k) /\ n = k
        BY <2>1, <2>2, <3>1
      <3> QED  BY <3>2 DEF Agree
    <2>3. CASE TableAt(m2, r, u, j) # new
      <3>1. /\ TableAt(m2, r, u, j) = TableAt(m, r, u, j)
            /\ TableAt(m2, r, w, n) = TableAt(m, r, w, n)
        BY <1>12, <2>3
      <3> QED  BY <1>1, <3>1 DEF OnePlaceEach
    <2> QED  BY <2>2, <2>3
  <1>15. NoneLost(m2, r, fr \ {new})
    <2> SUFFICES ASSUME NEW f \in TableFrames \ (fr \ {new})
                 PROVE  \E w \in Addresses, n \in 0 .. 3 : TableAt(m2, r, w, n) = f
      BY DEF NoneLost
    <2>1. CASE f = new
      <3>1. Agree(v, v, k) /\ k \in 0 .. 3  BY DEF Agree
      <3> QED  BY <1>12, <2>1, <3>1
    <2>2. CASE f # new
      <3>1. PICK w \in Addresses, n \in 0 .. 3 : TableAt(m, r, w, n) = f
        BY <2>2 DEF Tree, NoneLost
      <3>2. f # None  BY FrameFacts
      <3>3. ~(Agree(w, v, k) /\ n = k)
        <4>1. k \in 0 .. 4 /\ k \in 0 .. 3  OBVIOUS
        <4>2. Agree(w, v, k) => TableAt(m, r, w, k) = None  BY <1>9, <4>1, AgreeSame
        <4> QED  BY <3>1, <3>2, <4>2
      <3> QED  BY <1>12, <3>1, <3>3
    <2> QED  BY <2>1, <2>2
  <1>16. PagesAreCallers(m2, r)
    <2> SUFFICES ASSUME NEW w \in Addresses, NEW n \in 1 .. 4, IsPage(n, EntryAt(m2, r, w, n))
                 PROVE  Prefix(w, n) \in Pages /\ EntryAt(m2, r, w, n).base \in DataFrames
      BY DEF PagesAreCallers
    <2>1. ~(Agree(w, v, k) /\ n = k)  BY <1>10, <1>12
    <2>2. EntryAt(m2, r, w, n) = EntryAt(m, r, w, n)  BY <1>12, <2>1
    <2> QED  BY <2>2 DEF Tree, PagesAreCallers
  <1>17. Tree(m2, r, fr \ {new})
    BY <1>6, <1>13, <1>14, <1>15, <1>16 DEF Tree
  <1>18. \A f \in Frames \ TableFrames : m2[f] = m[f]  BY <1>1, <1>2, <1>4, <1>6
  <1>19. /\ m2[TableAt(m, r, v, k - 1)][v[k]].present
         /\ \A f \in Frames \ {new, TableAt(m, r, v, k - 1)} : m2[f] = m[f]
    BY <1>3, <1>4, <1>6, <1>t
  <1>20. Redirected(m, m2, r, v, k, new, EntryFor(new, FALSE))  BY <1>12, <1>e DEF Redirected
  <1> QED  BY <1>7, <1>17, <1>18, <1>19, <1>20 DEF Linked

\* Memory m2 is m without the table of level k + 1, which is the PMM's again.
Unlinked(m, m2, r, fr, v, k) ==
    /\ Tree(m2, r, fr \union {TableAt(m, r, v, k)})
    /\ \A f \in Frames \ TableFrames : m2[f] = m[f]
    /\ \A f \in Frames \ {TableAt(m, r, v, k - 1)} : m2[f] = m[f]
    /\ Redirected(m, m2, r, v, k, None, Absent)

\* Clearing the entry of a bare table removes that table and nothing else.
LEMMA TableUnlinked ==
    ASSUME NEW m, NEW r, NEW fr, Tree(m, r, fr),
           NEW v \in Addresses, NEW k \in 1 .. 3,
           TableAt(m, r, v, k) # None, Bare(m, TableAt(m, r, v, k)),
           NEW m2, m2 = Written(m, TableAt(m, r, v, k - 1), v[k], Absent)
    PROVE  Unlinked(m, m2, r, fr, v, k)
  <1>t. PICK t : t = TableAt(m, r, v, k - 1)  OBVIOUS
  <1>o. PICK gone : gone = TableAt(m, r, v, k)  OBVIOUS
  <1>1. t # None
    <2>1. k - 1 \in 0 .. 3 /\ k \in k - 1 .. 3  OBVIOUS
    <2> QED  BY <1>t, <2>1, NothingBelow
  <1>2. /\ t \in Frames /\ t \in TableFrames /\ v[k] \in Index /\ m \in Memories
        /\ k \in 1 .. 4 /\ k \in 0 .. 3 /\ k \in 0 .. 4 /\ k - 1 \in 0 .. 3 /\ OnePlaceEach(m, r)
        /\ gone # None /\ gone \in TableFrames \ fr
    BY <1>1, <1>t, <1>o, TreeFacts DEF Tree, TablesInUse
  <1>3. m2 = Written(m, t, v[k], Absent)  BY <1>t
  <1>4. /\ m2 \in Memories
        /\ m2[t][v[k]] = Absent
        /\ \A f \in Frames, j \in Index : f # t \/ j # v[k] => m2[f][j] = m[f][j]
        /\ \A f \in Frames \ {t} : m2[f] = m[f]
    <2>1. Absent \in Entries  BY EntryFacts
    <2>2. OnlyEntry(m, m2, t, v[k], Absent)  BY <1>2, <1>3, <2>1, OneEntry
    <2> QED  BY <2>2 DEF OnlyEntry
  <1>5. ChangedOnlyAt(m, m2, r, v, k)  BY <1>4, <1>t, TreeFacts DEF ChangedOnlyAt
  <1>6. ~IsPage(k, Absent) /\ Below(k, Absent) = None  BY <1>2, BelowFacts
  <1>7. \A w \in Addresses :
          /\ \A n \in 0 .. 3 : TableAt(m2, r, w, n) =
               IF Agree(w, v, k) /\ n = k THEN None ELSE TableAt(m, r, w, n)
          /\ \A n \in 1 .. 4 : EntryAt(m2, r, w, n) =
               IF Agree(w, v, k) /\ n = k THEN Absent ELSE EntryAt(m, r, w, n)
    <2>1. m2[TableAt(m, r, v, k - 1)][v[k]] = Absent  BY <1>4, <1>t
    <2>2. Bare(m2, Below(k, Absent))  BY <1>6 DEF Bare
    <2>3. TableAt(m, r, v, k - 1) # None  BY <1>1, <1>t
    <2>4. k # 4 => Bare(m, TableAt(m, r, v, k)) /\ Bare(m2, Below(k, Absent))  BY <2>2
    <2>5. Redirected(m, m2, r, v, k, Below(k, Absent), Absent)
      BY <1>2, <1>4, <1>5, <2>1, <2>3, <2>4, EntryWritten
    <2> QED  BY <1>6, <2>5 DEF Redirected
  <1>8. \A w \in Addresses, n \in 0 .. 3 :
          TableAt(m, r, w, n) = gone <=> Agree(w, v, k) /\ n = k
    <2> TAKE w \in Addresses, n \in 0 .. 3
    <2>1. ASSUME Agree(w, v, k) PROVE TableAt(m, r, w, k) = gone  BY <1>2, <1>o, <2>1, AgreeSame
    <2>2. ASSUME TableAt(m, r, w, n) = gone PROVE n = k /\ Agree(w, v, n)
      BY <1>2, <1>o, <2>2 DEF OnePlaceEach
    <2> QED  BY <2>1, <2>2
  <1>9. TablesInUse(m2, r, fr \union {gone})
    <2> SUFFICES ASSUME NEW w \in Addresses, NEW n \in 0 .. 3, TableAt(m2, r, w, n) # None
                 PROVE  TableAt(m2, r, w, n) \in TableFrames \ (fr \union {gone})
      BY DEF TablesInUse
    <2>1. TableAt(m2, r, w, n) = TableAt(m, r, w, n) /\ TableAt(m, r, w, n) # gone
      BY <1>7, <1>8
    <2> QED  BY <2>1 DEF Tree, TablesInUse
  <1>10. OnePlaceEach(m2, r)
    <2> SUFFICES ASSUME NEW u \in Addresses, NEW w \in Addresses, NEW j \in 0 .. 3, NEW n \in 0 .. 3,
                        TableAt(m2, r, u, j) # None, TableAt(m2, r, u, j) = TableAt(m2, r, w, n)
                 PROVE  j = n /\ Agree(u, w, j)
      BY DEF OnePlaceEach
    <2>1. /\ TableAt(m2, r, u, j) = TableAt(m, r, u, j)
          /\ TableAt(m2, r, w, n) = TableAt(m, r, w, n)
      BY <1>7
    <2> QED  BY <1>2, <2>1 DEF OnePlaceEach
  <1>11. NoneLost(m2, r, fr \union {gone})
    <2> SUFFICES ASSUME NEW f \in TableFrames \ (fr \union {gone})
                 PROVE  \E w \in Addresses, n \in 0 .. 3 : TableAt(m2, r, w, n) = f
      BY DEF NoneLost
    <2>1. PICK w \in Addresses, n \in 0 .. 3 : TableAt(m, r, w, n) = f
      BY DEF Tree, NoneLost
    <2> QED  BY <1>7, <1>8, <2>1
  <1>12. PagesAreCallers(m2, r)
    <2> SUFFICES ASSUME NEW w \in Addresses, NEW n \in 1 .. 4, IsPage(n, EntryAt(m2, r, w, n))
                 PROVE  Prefix(w, n) \in Pages /\ EntryAt(m2, r, w, n).base \in DataFrames
      BY DEF PagesAreCallers
    <2>1. ~(Agree(w, v, k) /\ n = k)  BY <1>6, <1>7
    <2>2. EntryAt(m2, r, w, n) = EntryAt(m, r, w, n)  BY <1>7, <2>1
    <2> QED  BY <2>2 DEF Tree, PagesAreCallers
  <1>13. Tree(m2, r, fr \union {gone})
    BY <1>2, <1>4, <1>9, <1>10, <1>11, <1>12 DEF Tree
  <1>14. \A f \in Frames \ TableFrames : m2[f] = m[f]  BY <1>2, <1>4
  <1>15. \A f \in Frames \ {TableAt(m, r, v, k - 1)} : m2[f] = m[f]  BY <1>4, <1>t
  <1>16. Redirected(m, m2, r, v, k, None, Absent)  BY <1>7 DEF Redirected
  <1> QED  BY <1>13, <1>14, <1>15, <1>16, <1>o DEF Unlinked

-----------------------------------------------------------------------------
(* Mapping a page.                                                         *)

\* The same pages are mapped, to the same frames, with the exception of one.
SamePagesBut(m, m2, r, v, k) ==
    \A w \in Addresses, n \in 1 .. 4 :
      /\ ~(Agree(w, v, k) /\ n = k)
      /\ IsPage(n, EntryAt(m, r, w, n)) \/ IsPage(n, EntryAt(m2, r, w, n))
      => EntryAt(m2, r, w, n) = EntryAt(m, r, w, n)

\* The same pages are mapped, to the same frames.
SamePages(m, m2, r) ==
    \A w \in Addresses, n \in 1 .. 4 :
      IsPage(n, EntryAt(m, r, w, n)) \/ IsPage(n, EntryAt(m2, r, w, n))
      => EntryAt(m2, r, w, n) = EntryAt(m, r, w, n)

\* Frames that are not tables of the address space are left alone: data, and
\* frames set apart for the tables of another address space.
SameApart(m, m2, apart) == \A f \in (Frames \ TableFrames) \union apart : m2[f] = m[f]

\* The tables of an address space, in what the PMM has given out and is not set apart.
TreeBeside(m, r, fr, apart) == Tree(m, r, fr \union apart) /\ fr \cap apart = {}

\* The tables are neither in the pool nor set apart.
LEMMA BesideFacts ==
    ASSUME NEW m, NEW r, NEW fr, NEW apart, TreeBeside(m, r, fr, apart)
    PROVE  /\ m \in Memories /\ r \in TableFrames /\ OnePlaceEach(m, r) /\ PagesAreCallers(m, r)
           /\ fr \subseteq TableFrames /\ apart \subseteq TableFrames /\ apart \subseteq Frames
           /\ \A w \in Addresses, n \in 0 .. 3 : TableAt(m, r, w, n) # None =>
                /\ TableAt(m, r, w, n) \in TableFrames /\ TableAt(m, r, w, n) \in Frames
                /\ TableAt(m, r, w, n) \notin fr /\ TableAt(m, r, w, n) \notin apart
           /\ \A w \in Addresses, n \in 1 .. 4 : EntryAt(m, r, w, n) \in Entries
  <1>1. Tree(m, r, fr \union apart)  BY DEF TreeBeside
  <1>2. \A w \in Addresses, n \in 1 .. 4 : EntryAt(m, r, w, n) \in Entries  BY <1>1, TreeFacts
  <1> QED  BY <1>1, <1>2, FrameFacts DEF Tree, TablesInUse

\* The levels from the k-th to the last but the L-th at which a table has to be made.
Missing(m, r, v, k, L) == {n \in k .. L - 1 : TableAt(m, r, v, n) = None}

\* The frames suffice at every level if they suffice at first.
LEMMA MissingFacts ==
    ASSUME NEW m, NEW m2, NEW r, NEW v, NEW L \in 2 .. 4, NEW k \in 1 .. L - 1,
           NEW fr, IsFiniteSet(fr),
           Cardinality(Missing(m, r, v, k, L)) <= Cardinality(fr),
           \A n \in k + 1 .. 3 : TableAt(m2, r, v, n) = TableAt(m, r, v, n)
    PROVE  /\ TableAt(m, r, v, k) = None => fr # {}
           /\ TableAt(m, r, v, k) # None =>
                Cardinality(Missing(m2, r, v, k + 1, L)) <= Cardinality(fr)
           /\ \A f \in fr : TableAt(m, r, v, k) = None =>
                Cardinality(Missing(m2, r, v, k + 1, L)) <= Cardinality(fr \ {f})
  <1>f. IsFiniteSet(Missing(m, r, v, k, L))
    <2>1. IsFiniteSet(k .. L - 1)  BY FS_Interval
    <2>2. Missing(m, r, v, k, L) \subseteq k .. L - 1  BY DEF Missing
    <2> QED  BY <2>1, <2>2, FS_Subset
  <1>c. Cardinality(fr) \in Nat /\ Cardinality(Missing(m, r, v, k, L)) \in Nat
    BY <1>f, FS_CardinalityType
  <1>1. ASSUME TableAt(m, r, v, k) # None
        PROVE  Missing(m2, r, v, k + 1, L) = Missing(m, r, v, k, L)
    BY <1>1 DEF Missing
  <1>2. ASSUME TableAt(m, r, v, k) = None
        PROVE  /\ k \in Missing(m, r, v, k, L)
               /\ Missing(m2, r, v, k + 1, L) = Missing(m, r, v, k, L) \ {k}
    BY <1>2 DEF Missing
  <1>3. ASSUME TableAt(m, r, v, k) = None
        PROVE  Cardinality(Missing(m2, r, v, k + 1, L)) = Cardinality(Missing(m, r, v, k, L)) - 1
    BY <1>2, <1>3, <1>f, FS_RemoveElement
  <1>4. ASSUME TableAt(m, r, v, k) = None PROVE Cardinality(fr) # 0
    <2>1. Cardinality(Missing(m2, r, v, k + 1, L)) \in Nat
      <3>1. IsFiniteSet(Missing(m, r, v, k, L) \ {k})  BY <1>f, FS_RemoveElement
      <3> QED  BY <1>2, <1>4, <3>1, FS_CardinalityType
    <2> QED  BY <1>3, <1>4, <1>c, <2>1
  <1>5. \A f \in fr : Cardinality(fr \ {f}) = Cardinality(fr) - 1  BY FS_RemoveElement
  <1>6. TableAt(m, r, v, k) = None => fr # {}  BY <1>4, FS_EmptySet
  <1> QED  BY <1>1, <1>3, <1>5, <1>6, <1>c

\* Descend makes the next table if there is none and returns it.
LEMMA Descended ==
    ASSUME NEW m, NEW r, NEW fr, NEW apart, TreeBeside(m, r, fr, apart),
           NEW v \in Addresses, NEW L \in 2 .. 4, NEW k \in 1 .. L - 1,
           TableAt(m, r, v, k - 1) # None,
           NoneEmptyBut(m, r, TableAt(m, r, v, k - 1)),
           ~IsPage(k, EntryAt(m, r, v, k)),
           Cardinality(Missing(m, r, v, k, L)) <= Cardinality(fr),
           NEW s, s = [mem |-> m, free |-> fr, table |-> TableAt(m, r, v, k - 1)],
           NEW d, d = Descend(s, v[k])
    PROVE  /\ d = [mem |-> d.mem, free |-> d.free, table |-> TableAt(d.mem, r, v, k)]
           /\ TreeBeside(d.mem, r, d.free, apart)
           /\ TableAt(d.mem, r, v, k) # None
           /\ NoneEmptyBut(d.mem, r, TableAt(d.mem, r, v, k))
           /\ Cardinality(Missing(d.mem, r, v, k + 1, L)) <= Cardinality(d.free)
           /\ \A n \in k + 1 .. 4 : EntryAt(d.mem, r, v, n) = EntryAt(m, r, v, n)
           /\ SamePages(m, d.mem, r)
           /\ SameApart(m, d.mem, apart)
  <1>t. PICK t : t = TableAt(m, r, v, k - 1)  OBVIOUS
  <1>1. /\ k \in 1 .. 3 /\ k \in 1 .. 4 /\ k \in 0 .. 3 /\ k - 1 \in 0 .. 3
        /\ v[k] \in Index /\ t # None /\ t \in Frames /\ IsFiniteSet(fr)
    <2>1. k \in 1 .. 3 /\ k \in 1 .. 4 /\ k \in 0 .. 3 /\ k - 1 \in 0 .. 3  OBVIOUS
    <2>2. v[k] \in Index /\ t # None /\ t \in Frames  BY <1>t, <2>1, BesideFacts DEF Addresses
    <2>3. IsFiniteSet(fr)  BY BesideFacts, FramesAssumption, FS_Subset
    <2> QED  BY <2>1, <2>2, <2>3
  <1>2. EntryAt(m, r, v, k) = m[t][v[k]]  BY <1>1, <1>t, TableStep DEF EntryIn
  <1>3. CASE EntryAt(m, r, v, k).present
    <2>1. d = [s EXCEPT !.table = m[t][v[k]].base]
      BY <1>2, <1>3, <1>t DEF Descend
    <2>2. TableAt(m, r, v, k) = m[t][v[k]].base
      BY <1>1, <1>2, <1>3, TableStep, BelowFacts
    <2>3. d = [mem |-> m, free |-> fr, table |-> TableAt(m, r, v, k)]
      BY <2>1, <2>2
    <2>4. TableAt(m, r, v, k) # None
      <3>1. EntryAt(m, r, v, k) \in Entries  BY <1>1, BesideFacts
      <3> QED  BY <1>2, <1>3, <2>2, <3>1, EntryFacts, FrameFacts
    <2>5. NoneEmptyBut(m, r, TableAt(m, r, v, k))
      BY <1>1, <1>2, <1>3, <1>t DEF NoneEmptyBut
    <2>6. Cardinality(Missing(m, r, v, k + 1, L)) <= Cardinality(fr)
      BY <1>1, <2>4, MissingFacts
    <2> QED  BY <2>3, <2>4, <2>5, <2>6 DEF SamePages, SameApart
  <1>4. CASE ~EntryAt(m, r, v, k).present
    <2>1. TableAt(m, r, v, k) = None
      <3>1. EntryAt(m, r, v, k) = Absent  BY <1>1, <1>4, BesideFacts, EntryFacts
      <3> QED  BY <1>1, <3>1, TableStep, BelowFacts
    <2>2. fr # {}  BY <1>1, <2>1, MissingFacts
    <2>3. PICK new \in fr : new = PmmAlloc(fr)  BY <2>2 DEF PmmAlloc
    <2>4. PICK m2 : m2 = Written(Zeroed(m, new), TableAt(m, r, v, k - 1), v[k], EntryFor(new, FALSE))
      OBVIOUS
    <2>5. d = [mem |-> m2, free |-> fr \ {new}, table |-> new]
      <3>1. m2 = [m EXCEPT ![new] = EmptyTable, ![t][v[k]] = EntryFor(new, FALSE)]
        BY <1>t, <2>4 DEF Written, Zeroed
      <3> QED  BY <1>2, <1>4, <1>t, <2>3, <3>1 DEF Descend
    <2>6. /\ TreeBeside(m2, r, fr \ {new}, apart)
          /\ SameApart(m, m2, apart)
          /\ m2[t][v[k]].present
          /\ \A f \in Frames \ {new, t} : m2[f] = m[f]
          /\ \A w \in Addresses :
               /\ \A n \in 0 .. 3 : TableAt(m2, r, w, n) =
                    IF Agree(w, v, k) /\ n = k THEN new ELSE TableAt(m, r, w, n)
               /\ \A n \in 1 .. 4 : EntryAt(m2, r, w, n) =
                    IF Agree(w, v, k) /\ n = k THEN EntryFor(new, FALSE) ELSE EntryAt(m, r, w, n)
      <3>1. Linked(m, m2, r, fr \union apart, v, k, new)
        <4>1. k \in 1 .. 3 /\ new \in fr \union apart  BY <1>1
        <4>2. /\ Tree(m, r, fr \union apart)
              /\ TableAt(m, r, v, k - 1) # None /\ ~EntryAt(m, r, v, k).present
          BY <1>4 DEF TreeBeside
        <4> QED  BY <2>4, <4>1, <4>2, TableLinked
      <3>2. (fr \union apart) \ {new} = (fr \ {new}) \union apart /\ new \notin apart
        BY DEF TreeBeside
      <3>3. TreeBeside(m2, r, fr \ {new}, apart)  BY <3>1, <3>2 DEF TreeBeside, Linked
      <3>4. SameApart(m, m2, apart)
        <4>1. t \in TableFrames /\ t \notin apart /\ new \in TableFrames /\ apart \subseteq Frames
          BY <1>1, <1>t, BesideFacts
        <4> QED  BY <1>t, <3>1, <3>2, <4>1 DEF SameApart, Linked
      <3> QED  BY <1>t, <3>1, <3>3, <3>4 DEF Redirected, Linked
    <2>7. TableAt(m2, r, v, k) = new
      BY <1>1, <2>6 DEF Agree
    <2>8. new # None  BY BesideFacts, FrameFacts
    <2>9. NoneEmptyBut(m2, r, new)
      <3> SUFFICES ASSUME NEW w \in Addresses, NEW n \in 1 .. 3, TableAt(m2, r, w, n) \notin {None, new}
                   PROVE  \E i \in Index : m2[TableAt(m2, r, w, n)][i].present
        BY DEF NoneEmptyBut
      <3>1. TableAt(m2, r, w, n) = TableAt(m, r, w, n) /\ n \in 0 .. 3
        <4>1. n \in 0 .. 3  OBVIOUS
        <4>2. TableAt(m2, r, w, n) = IF Agree(w, v, k) /\ n = k THEN new ELSE TableAt(m, r, w, n)
          BY <2>6, <4>1
        <4> QED  BY <4>1, <4>2
      <3>2. CASE TableAt(m, r, w, n) = t  BY <1>1, <2>6, <3>1, <3>2
      <3>3. CASE TableAt(m, r, w, n) # t
        <4>1. TableAt(m, r, w, n) \in Frames \ {new, t}  BY <2>8, <3>1, <3>3, BesideFacts
        <4>2. \E i \in Index : m[TableAt(m, r, w, n)][i].present
          BY <1>t, <3>1, <3>3 DEF NoneEmptyBut
        <4> QED  BY <2>6, <3>1, <4>1, <4>2
      <3> QED  BY <3>2, <3>3
    <2>10. \A n \in k + 1 .. 4 : n \in 1 .. 4 /\ n # k  BY <1>1
    <2>11. \A n \in k + 1 .. 3 : n \in 0 .. 3 /\ n # k  BY <1>1
    <2>12. Cardinality(Missing(m2, r, v, k + 1, L)) <= Cardinality(fr \ {new})
      <3>1. \A n \in k + 1 .. 3 : TableAt(m2, r, v, n) = TableAt(m, r, v, n)  BY <2>6, <2>11
      <3> QED  BY <1>1, <2>1, <3>1, MissingFacts
    <2>13. \A n \in k + 1 .. 4 : EntryAt(m2, r, v, n) = EntryAt(m, r, v, n)  BY <2>6, <2>10
    <2>14. SamePages(m, m2, r)
      <3> SUFFICES ASSUME NEW w \in Addresses, NEW n \in 1 .. 4,
                          IsPage(n, EntryAt(m, r, w, n)) \/ IsPage(n, EntryAt(m2, r, w, n))
                   PROVE  EntryAt(m2, r, w, n) = EntryAt(m, r, w, n)
        BY DEF SamePages
      <3>1. ~(Agree(w, v, k) /\ n = k)
        <4> SUFFICES ASSUME Agree(w, v, k), n = k PROVE FALSE  OBVIOUS
        <4>1. EntryAt(m, r, w, k) = EntryAt(m, r, v, k)
          <5>1. k \in 0 .. 4 /\ k <= k  BY <1>1
          <5> QED  BY <1>1, <5>1, AgreeSame
        <4>2. EntryAt(m2, r, w, k) = EntryFor(new, FALSE)  BY <1>1, <2>6
        <4>3. ~IsPage(k, EntryFor(new, FALSE))
          <5>1. k # 4  BY <1>1
          <5>2. EntryFor(new, FALSE).page_size = FALSE  BY EntryFacts
          <5> QED  BY <5>1, <5>2 DEF IsPage
        <4> QED  BY <4>1, <4>2, <4>3
      <3> QED  BY <2>6, <3>1
    <2>15. d.mem = m2 /\ d.free = fr \ {new}  BY <2>5
    <2>16. d = [mem |-> d.mem, free |-> d.free, table |-> TableAt(d.mem, r, v, k)]
      BY <2>5, <2>7, <2>15
    <2>17. TreeBeside(m2, r, fr \ {new}, apart) /\ SameApart(m, m2, apart)  BY <2>6
    <2> QED  BY <2>7, <2>8, <2>9, <2>12, <2>13, <2>14, <2>15, <2>16, <2>17
  <1> QED  BY <1>3, <1>4

\* How far paging_map_page has come when it has made the table of level k + 1.
Down(m, r, apart, v, L, k, d) ==
    /\ d = [mem |-> d.mem, free |-> d.free, table |-> TableAt(d.mem, r, v, k)]
    /\ TreeBeside(d.mem, r, d.free, apart)
    /\ TableAt(d.mem, r, v, k) # None
    /\ NoneEmptyBut(d.mem, r, TableAt(d.mem, r, v, k))
    /\ Cardinality(Missing(d.mem, r, v, k + 1, L)) <= Cardinality(d.free)
    /\ \A n \in k + 1 .. 4 : EntryAt(d.mem, r, v, n) = EntryAt(m, r, v, n)
    /\ SamePages(m, d.mem, r)
    /\ SameApart(m, d.mem, apart)

\* Each level of paging_map_page makes or follows one table.
LEMMA DownOne ==
    ASSUME NEW m, NEW r, NEW apart, NEW v \in Addresses, NEW L \in 2 .. 4, NEW k \in 1 .. L - 1,
           NEW s, Down(m, r, apart, v, L, k - 1, s),
           ~IsPage(k, EntryAt(m, r, v, k)),
           NEW d, d = Descend(s, v[k])
    PROVE  Down(m, r, apart, v, L, k, d)
  <1>k. (k - 1) + 1 = k /\ k \in k .. 4 /\ \A n \in k + 1 .. 4 : n \in k .. 4  BY SMT
  <1>1. /\ s = [mem |-> s.mem, free |-> s.free, table |-> TableAt(s.mem, r, v, k - 1)]
        /\ TreeBeside(s.mem, r, s.free, apart)
        /\ TableAt(s.mem, r, v, k - 1) # None
        /\ NoneEmptyBut(s.mem, r, TableAt(s.mem, r, v, k - 1))
        /\ Cardinality(Missing(s.mem, r, v, k, L)) <= Cardinality(s.free)
        /\ \A n \in k .. 4 : EntryAt(s.mem, r, v, n) = EntryAt(m, r, v, n)
        /\ SamePages(m, s.mem, r)
        /\ SameApart(m, s.mem, apart)
    BY <1>k DEF Down
  <1>2. ~IsPage(k, EntryAt(s.mem, r, v, k))  BY <1>1, <1>k
  <1>3. /\ d = [mem |-> d.mem, free |-> d.free, table |-> TableAt(d.mem, r, v, k)]
        /\ TreeBeside(d.mem, r, d.free, apart)
        /\ TableAt(d.mem, r, v, k) # None
        /\ NoneEmptyBut(d.mem, r, TableAt(d.mem, r, v, k))
        /\ Cardinality(Missing(d.mem, r, v, k + 1, L)) <= Cardinality(d.free)
        /\ \A n \in k + 1 .. 4 : EntryAt(d.mem, r, v, n) = EntryAt(s.mem, r, v, n)
        /\ SamePages(s.mem, d.mem, r)
        /\ SameApart(s.mem, d.mem, apart)
    BY <1>1, <1>2, Descended
  <1>4. \A n \in k + 1 .. 4 : EntryAt(d.mem, r, v, n) = EntryAt(m, r, v, n)
    BY <1>1, <1>3, <1>k
  <1>5. SamePages(m, d.mem, r)
    <2> SUFFICES ASSUME NEW w \in Addresses, NEW n \in 1 .. 4,
                        IsPage(n, EntryAt(m, r, w, n)) \/ IsPage(n, EntryAt(d.mem, r, w, n))
                 PROVE  EntryAt(d.mem, r, w, n) = EntryAt(m, r, w, n)
      BY DEF SamePages
    <2>1. IsPage(n, EntryAt(m, r, w, n)) \/ IsPage(n, EntryAt(s.mem, r, w, n))
            => EntryAt(s.mem, r, w, n) = EntryAt(m, r, w, n)
      BY <1>1 DEF SamePages
    <2>2. IsPage(n, EntryAt(s.mem, r, w, n)) \/ IsPage(n, EntryAt(d.mem, r, w, n))
            => EntryAt(d.mem, r, w, n) = EntryAt(s.mem, r, w, n)
      BY <1>3 DEF SamePages
    <2> QED  BY <2>1, <2>2
  <1>6. SameApart(m, d.mem, apart)  BY <1>1, <1>3 DEF SameApart
  <1> QED  BY <1>3, <1>4, <1>5, <1>6 DEF Down

\* Memory m2 is that of d with the page's entry, where there was none.
LeafIn(m, m2, r, apart, v, L, e, d) ==
    /\ TreeBeside(m2, r, d.free, apart)
    /\ NoneEmptyBut(m2, r, r)
    /\ SameApart(m, m2, apart)
    /\ EntryAt(m, r, v, L) = d.mem[d.table][v[L]]
    /\ IF d.mem[d.table][v[L]].present THEN SamePages(m, m2, r)
       ELSE /\ SamePagesBut(m, m2, r, v, L)
            /\ EntryAt(m2, r, v, L) = e

\* What paging_map_page does with the table it has come to.
LEMMA LeafEntered ==
    ASSUME NEW m, NEW r, NEW apart, NEW v \in Addresses, NEW L \in 2 .. 4,
           NEW d, Down(m, r, apart, v, L, L - 1, d),
           Prefix(v, L) \in Pages,
           NEW e \in Entries, IsPage(L, e), e.base \in DataFrames,
           NEW m2, m2 = IF d.mem[d.table][v[L]].present THEN d.mem
                        ELSE Written(d.mem, d.table, v[L], e)
    PROVE  LeafIn(m, m2, r, apart, v, L, e, d)
  <1>1. /\ d.table = TableAt(d.mem, r, v, L - 1)
        /\ TreeBeside(d.mem, r, d.free, apart)
        /\ TableAt(d.mem, r, v, L - 1) # None
        /\ NoneEmptyBut(d.mem, r, TableAt(d.mem, r, v, L - 1))
        /\ EntryAt(d.mem, r, v, L) = EntryAt(m, r, v, L)
        /\ SamePages(m, d.mem, r)
        /\ SameApart(m, d.mem, apart)
    <2>1. (L - 1) + 1 = L /\ L \in L .. 4  OBVIOUS
    <2>2. /\ d = [mem |-> d.mem, free |-> d.free, table |-> TableAt(d.mem, r, v, L - 1)]
          /\ \A n \in L .. 4 : EntryAt(d.mem, r, v, n) = EntryAt(m, r, v, n)
      BY <2>1 DEF Down
    <2>3. d.table = TableAt(d.mem, r, v, L - 1)  BY <2>2
    <2> QED  BY <2>1, <2>2, <2>3 DEF Down
  <1>2. /\ L \in 1 .. 4 /\ L - 1 \in 0 .. 3 /\ v[L] \in Index /\ d.table \in Frames
        /\ EntryAt(d.mem, r, v, L) = d.mem[d.table][v[L]]
    <2>1. L \in 1 .. 4 /\ L - 1 \in 0 .. 3  OBVIOUS
    <2> QED  BY <1>1, <2>1, BesideFacts, TableStep DEF EntryIn, Addresses
  <1>3. ASSUME NEW x \in Memories, NEW y, OnePlaceEach(x, r), r \in TableFrames,
               \E i \in Index : x[d.table][i].present,
               \A w \in Addresses, n \in 1 .. 3 :
                 TableAt(x, r, w, n) = TableAt(d.mem, r, w, n),
               \A w \in Addresses, n \in 1 .. 3, i \in Index :
                 TableAt(d.mem, r, w, n) # None /\ d.mem[TableAt(d.mem, r, w, n)][i].present
                   => x[TableAt(d.mem, r, w, n)][i].present
        PROVE  NoneEmptyBut(x, r, y)
    BY <1>1, <1>3 DEF NoneEmptyBut
  <1>4. CASE d.mem[d.table][v[L]].present
    <2>1. m2 = d.mem  BY <1>4
    <2>2. NoneEmptyBut(d.mem, r, r)
      BY <1>1, <1>2, <1>3, <1>4, BesideFacts
    <2> QED  BY <1>1, <1>2, <1>4, <2>1, <2>2 DEF LeafIn
  <1>5. CASE ~d.mem[d.table][v[L]].present
    <2>1. m2 = Written(d.mem, TableAt(d.mem, r, v, L - 1), v[L], e)
      BY <1>1, <1>5
    <2>2. Below(L, e) = None /\ e.present  BY BelowFacts
    <2>3. L # 4 => TableAt(d.mem, r, v, L) = None
      <3>1. EntryAt(d.mem, r, v, L) = Absent
        BY <1>1, <1>2, <1>5, BesideFacts, EntryFacts
      <3> QED  BY <1>2, <3>1, TableStep, BelowFacts
    <2>4. /\ TreeBeside(m2, r, d.free, apart)
          /\ SameApart(d.mem, m2, apart)
          /\ \A f \in Frames, i \in Index : m2[f][i] =
               IF f = TableAt(d.mem, r, v, L - 1) /\ i = v[L] THEN e ELSE d.mem[f][i]
          /\ \A w \in Addresses :
               /\ \A n \in 0 .. 3 : TableAt(m2, r, w, n) = TableAt(d.mem, r, w, n)
               /\ \A n \in 1 .. 4 : EntryAt(m2, r, w, n) =
                    IF Agree(w, v, L) /\ n = L THEN e ELSE EntryAt(d.mem, r, w, n)
      <3>1. IsPage(L, e) => Prefix(v, L) \in Pages /\ e.base \in DataFrames  BY <2>2
      <3>2. Tree(d.mem, r, d.free \union apart)  BY <1>1 DEF TreeBeside
      <3>3. /\ Tree(m2, r, d.free \union apart)
            /\ \A f \in Frames \ {TableAt(d.mem, r, v, L - 1)} : m2[f] = d.mem[f]
            /\ \A f \in Frames, i \in Index : m2[f][i] =
                 IF f = TableAt(d.mem, r, v, L - 1) /\ i = v[L] THEN e ELSE d.mem[f][i]
            /\ \A w \in Addresses :
                 /\ \A n \in 0 .. 3 : TableAt(m2, r, w, n) = TableAt(d.mem, r, w, n)
                 /\ \A n \in 1 .. 4 : EntryAt(m2, r, w, n) =
                      IF Agree(w, v, L) /\ n = L THEN e ELSE EntryAt(d.mem, r, w, n)
        <4>1. PICK fr : fr = d.free \union apart  OBVIOUS
        <4>2. LeafChanged(d.mem, m2, r, fr, v, L, e)
          BY <1>1, <1>2, <2>1, <2>2, <2>3, <3>1, <3>2, <4>1, LeafWritten
        <4> QED  BY <4>1, <4>2 DEF LeafChanged
      <3>4. TreeBeside(m2, r, d.free, apart)  BY <1>1, <3>3 DEF TreeBeside
      <3>5. SameApart(d.mem, m2, apart)
        <4>1. PICK t : t = TableAt(d.mem, r, v, L - 1)  OBVIOUS
        <4>2. t \in TableFrames /\ t \notin apart /\ apart \subseteq Frames
          BY <1>1, <1>2, <4>1, BesideFacts
        <4>3. \A f \in Frames \ {t} : m2[f] = d.mem[f]  BY <3>3, <4>1
        <4> QED  BY <4>2, <4>3 DEF SameApart
      <3> QED  BY <3>3, <3>4, <3>5
    <2>5. NoneEmptyBut(m2, r, r)
      <3>1. m2[d.table][v[L]].present  BY <1>1, <1>2, <2>2, <2>4
      <3>2. \A w \in Addresses, n \in 1 .. 3 : TableAt(d.mem, r, w, n) # None
              => TableAt(d.mem, r, w, n) \in Frames
        BY <1>1, BesideFacts
      <3>3. \A w \in Addresses, n \in 1 .. 3, i \in Index :
              TableAt(d.mem, r, w, n) # None /\ d.mem[TableAt(d.mem, r, w, n)][i].present
                => m2[TableAt(d.mem, r, w, n)][i].present
        BY <2>2, <2>4, <3>2
      <3>4. m2 \in Memories /\ OnePlaceEach(m2, r) /\ r \in TableFrames
        <4>1. TreeBeside(m2, r, d.free, apart)  BY <2>4
        <4> QED  BY <4>1, BesideFacts
      <3>5. \E i \in Index : m2[d.table][i].present  BY <1>2, <3>1
      <3>6. \A w \in Addresses, n \in 1 .. 3 : TableAt(m2, r, w, n) = TableAt(d.mem, r, w, n)
        <4>1. \A n \in 1 .. 3 : n \in 0 .. 3  OBVIOUS
        <4> QED  BY <2>4, <4>1
      <3> QED  BY <1>3, <3>3, <3>4, <3>5, <3>6
    <2>6. SamePagesBut(m, m2, r, v, L)
      BY <1>1, <2>4 DEF SamePages, SamePagesBut
    <2>7. SameApart(m, m2, apart)  BY <1>1, <2>4 DEF SameApart
    <2>8. EntryAt(m2, r, v, L) = e
      BY <1>2, <2>4 DEF Agree
    <2> QED  BY <1>1, <1>2, <1>5, <2>4, <2>5, <2>6, <2>7, <2>8 DEF LeafIn
  <1> QED  BY <1>4, <1>5

\* A page is the common beginning of the addresses it contains.
LEMMA PageFacts ==
    ASSUME NEW page \in Pages
    PROVE  /\ Len(page) \in 2 .. 4
           /\ page \in [1 .. Len(page) -> Index]
           /\ page \in Seq(Index)
           /\ Last(page) = page[Len(page)]
           /\ \E v \in Addresses : Prefix(v, Len(page)) = page
           /\ \A v : Prefix(v, Len(page)) = page => Agree(v, page, Len(page))
  <1>1. PICK L \in 2 .. 4 : page \in [1 .. L -> Index]  BY PagesAssumption
  <1>2. L = Len(page) /\ page \in Seq(Index)  BY <1>1
  <1>3. \E v \in Addresses : Prefix(v, Len(page)) = page
    <2>1. PICK i : i \in Index  BY IndexAssumption
    <2>2. PICK v : v = [n \in 1 .. 4 |-> IF n <= L THEN page[n] ELSE i]  OBVIOUS
    <2>3. v \in Addresses  BY <1>1, <2>1, <2>2 DEF Addresses
    <2>4. Prefix(v, L) = page  BY <1>1, <2>2 DEF Prefix
    <2> QED  BY <1>2, <2>3, <2>4
  <1>4. \A v : Prefix(v, Len(page)) = page => Agree(v, page, Len(page))
    BY <1>1, <1>2 DEF Prefix, Agree
  <1>5. Last(page) = page[Len(page)]  BY DEF Last
  <1> QED  BY <1>1, <1>2, <1>3, <1>4, <1>5

\* Mapping a page maps that page and no other, or nothing.
LEMMA PageMapped ==
    ASSUME NEW m, NEW r, NEW fr, NEW apart, TreeBeside(m, r, fr, apart), NoneEmptyBut(m, r, r),
           NEW page \in Pages, NEW v \in Addresses,
           NEW L, L = Len(page), Prefix(v, L) = page,
           \A n \in 1 .. L - 1 : ~IsPage(n, EntryAt(m, r, v, n)),
           Cardinality(Missing(m, r, v, 1, L)) <= Cardinality(fr),
           NEW s, s.mem = m, s.free = fr,
           NEW e \in Entries, IsPage(L, e), e.base \in DataFrames,
           NEW d, d = Mapped(s, r, page, e.base, e.page_size)
    PROVE  /\ TreeBeside(d.mem, r, d.free, apart)
           /\ NoneEmptyBut(d.mem, r, r)
           /\ SameApart(m, d.mem, apart)
           /\ d.status = (IF EntryAt(m, r, v, L).present THEN PAGING_ERROR ELSE PAGING_OK)
           /\ IF EntryAt(m, r, v, L).present THEN SamePages(m, d.mem, r)
              ELSE /\ SamePagesBut(m, d.mem, r, v, L)
                   /\ EntryAt(d.mem, r, v, L) = e
  <1>1. /\ L \in 2 .. 4 /\ Last(page) = page[L]
        /\ \A n \in 1 .. L : page[n] = v[n]
    BY PageFacts DEF Agree
  <1>2. PICK start : start = [mem |-> m, free |-> fr, table |-> r]  OBVIOUS
  <1>3. PICK pdpr : pdpr = Descend(start, page[1])  OBVIOUS
  <1>4. PICK pd : pd = Descend(pdpr, page[2])  OBVIOUS
  <1>5. PICK pt : pt = Descend(pd, page[3])  OBVIOUS
  <1>6. Down(m, r, apart, v, L, 0, start)
    <2>1. TableAt(m, r, v, 0) = r /\ r # None
      BY TableStep, FrameFacts, BesideFacts
    <2>2. start.mem = m /\ start.free = fr /\ 0 + 1 = 1  BY <1>2
    <2>3. SamePages(m, m, r) /\ SameApart(m, m, apart)  BY DEF SamePages, SameApart
    <2> QED  BY <1>2, <2>1, <2>2, <2>3 DEF Down
  <1>7. Down(m, r, apart, v, L, 1, pdpr)
    <2>1. 1 \in 1 .. L - 1 /\ 1 - 1 = 0 /\ 1 \in 1 .. L  BY <1>1
    <2> QED  BY <1>1, <1>3, <1>6, <2>1, DownOne
  <1>8. L > 2 => Down(m, r, apart, v, L, 2, pd)
    <2> SUFFICES ASSUME L > 2 PROVE Down(m, r, apart, v, L, 2, pd)  OBVIOUS
    <2>1. 2 \in 1 .. L - 1 /\ 2 - 1 = 1 /\ 2 \in 1 .. L  BY <1>1
    <2> QED  BY <1>1, <1>4, <1>7, <2>1, DownOne
  <1>9. L > 3 => Down(m, r, apart, v, L, 3, pt)
    <2> SUFFICES ASSUME L > 3 PROVE Down(m, r, apart, v, L, 3, pt)  OBVIOUS
    <2>1. 3 \in 1 .. L - 1 /\ 3 - 1 = 2 /\ 3 \in 1 .. L  BY <1>1
    <2> QED  BY <1>1, <1>5, <1>8, <2>1, DownOne
  <1>10. PICK last : last = CASE L = 2 -> pdpr [] L = 3 -> pd [] L = 4 -> pt  OBVIOUS
  <1>11. Down(m, r, apart, v, L, L - 1, last)
    <2>1. CASE L = 2
      <3>1. 2 - 1 = 1  OBVIOUS
      <3> QED  BY <2>1, <3>1, <1>7, <1>10
    <2>2. CASE L = 3
      <3>1. 3 - 1 = 2 /\ 3 > 2  OBVIOUS
      <3> QED  BY <2>2, <3>1, <1>8, <1>10
    <2>3. CASE L = 4
      <3>1. 4 - 1 = 3 /\ 4 > 3  OBVIOUS
      <3> QED  BY <2>3, <3>1, <1>9, <1>10
    <2> QED  BY <1>1, <2>1, <2>2, <2>3
  <1>12. PICK m2 : m2 = IF last.mem[last.table][v[L]].present THEN last.mem
                        ELSE Written(last.mem, last.table, v[L], e)
    OBVIOUS
  <1>13. d = [mem |-> m2, free |-> last.free,
              status |-> IF last.mem[last.table][v[L]].present THEN PAGING_ERROR ELSE PAGING_OK]
    <2>1. last = CASE Len(page) = 2 -> pdpr [] Len(page) = 3 -> pd [] Len(page) = 4 -> pt
      BY <1>10
    <2>2. Last(page) = v[L]  BY <1>1
    <2>3. start = [mem |-> s.mem, free |-> s.free, table |-> r]  BY <1>2
    <2>4. last = DescendTo(s, r, page)
      BY <1>3, <1>4, <1>5, <2>1, <2>3 DEF DescendTo
    <2>5. e = EntryFor(e.base, e.page_size)  BY BelowFacts, EntryFacts
    <2> QED  BY <1>12, <2>2, <2>4, <2>5, Zenon DEF Mapped, Written
  <1>14. /\ TreeBeside(m2, r, last.free, apart)
         /\ NoneEmptyBut(m2, r, r)
         /\ SameApart(m, m2, apart)
         /\ EntryAt(m, r, v, L) = last.mem[last.table][v[L]]
         /\ IF last.mem[last.table][v[L]].present THEN SamePages(m, m2, r)
            ELSE /\ SamePagesBut(m, m2, r, v, L)
                 /\ EntryAt(m2, r, v, L) = e
    <2>1. Prefix(v, L) \in Pages /\ L \in 2 .. 4  BY <1>1
    <2>2. LeafIn(m, m2, r, apart, v, L, e, last)  BY <2>1, <1>11, <1>12, LeafEntered
    <2> QED  BY <2>2 DEF LeafIn
  <1> QED  BY <1>13, <1>14

-----------------------------------------------------------------------------
(* Unmapping a page.                                                       *)

\* Below a table that is not empty a page is mapped.
LEMMA PageBelow ==
    ASSUME NEW m, NEW r, NEW fr, Tree(m, r, fr), NoneEmptyBut(m, r, r),
           NEW v \in Addresses, NEW k \in 1 .. 3, TableAt(m, r, v, k) # None
    PROVE  \E w \in Addresses, n \in k + 1 .. 4 : Agree(w, v, k) /\ IsPage(n, EntryAt(m, r, w, n))
  <1>1. ASSUME NEW u \in Addresses, NEW j \in 1 .. 3, TableAt(m, r, u, j) # None
        PROVE  \E w \in Addresses : Agree(w, u, j) /\ EntryAt(m, r, w, j + 1).present
    <2>1. TableAt(m, r, u, j) # r
      <3>1. TableAt(m, r, u, 0) = r /\ 0 \in 0 .. 3 /\ j \in 0 .. 3 /\ j # 0  BY TableStep
      <3> QED  BY <1>1, <3>1 DEF Tree, OnePlaceEach
    <2>2. PICK i \in Index : m[TableAt(m, r, u, j)][i].present
      BY <1>1, <2>1 DEF NoneEmptyBut
    <2>3. PICK w : w = [u EXCEPT ![j + 1] = i]  OBVIOUS
    <2>4. w \in Addresses /\ w[j + 1] = i /\ Agree(w, u, j)
      BY <2>3 DEF Addresses, Agree
    <2>5. TableAt(m, r, w, j) = TableAt(m, r, u, j)
      <3>1. j \in 0 .. 4 /\ j \in 0 .. 3 /\ j <= j  OBVIOUS
      <3> QED  BY <2>4, <3>1, AgreeSame
    <2>6. EntryAt(m, r, w, j + 1) = m[TableAt(m, r, u, j)][i]
      <3>1. j + 1 \in 1 .. 4 /\ (j + 1) - 1 = j  OBVIOUS
      <3> QED  BY <1>1, <2>4, <2>5, <3>1, TableStep DEF EntryIn
    <2> QED  BY <2>2, <2>4, <2>6
  <1>2. ASSUME NEW u \in Addresses, NEW j \in 1 .. 3, TableAt(m, r, u, j) # None,
               j # 3 => \A x \in Addresses : TableAt(m, r, x, j + 1) # None =>
                 \E w \in Addresses, n \in j + 2 .. 4 :
                   Agree(w, x, j + 1) /\ IsPage(n, EntryAt(m, r, w, n))
        PROVE  \E w \in Addresses, n \in j + 1 .. 4 : Agree(w, u, j) /\ IsPage(n, EntryAt(m, r, w, n))
    <2>1. PICK x \in Addresses : Agree(x, u, j) /\ EntryAt(m, r, x, j + 1).present
      BY <1>1, <1>2
    <2>2. j + 1 \in 1 .. 4 /\ j + 1 \in j + 1 .. 4  OBVIOUS
    <2>3. CASE IsPage(j + 1, EntryAt(m, r, x, j + 1))  BY <2>1, <2>2, <2>3
    <2>4. CASE ~IsPage(j + 1, EntryAt(m, r, x, j + 1))
      <3>1. j # 3
        <4>1. j = 3 => IsPage(j + 1, EntryAt(m, r, x, j + 1))  BY <2>1 DEF IsPage
        <4> QED  BY <2>4, <4>1
      <3>2. j + 1 \in 1 .. 3  BY <3>1
      <3>3. TableAt(m, r, x, j + 1) # None
        <4>1. TableAt(m, r, x, j + 1) = EntryAt(m, r, x, j + 1).base
          BY <2>1, <2>4, <3>2, TableStep, BelowFacts
        <4>2. EntryAt(m, r, x, j + 1) \in Entries  BY <2>2, TreeFacts
        <4> QED  BY <2>1, <4>1, <4>2, EntryFacts, FrameFacts
      <3>4. PICK w \in Addresses, n \in j + 2 .. 4 :
              Agree(w, x, j + 1) /\ IsPage(n, EntryAt(m, r, w, n))
        BY <1>2, <3>1, <3>3
      <3>5. n \in j + 1 .. 4 /\ Agree(w, u, j)  BY <2>1, <3>4 DEF Agree
      <3> QED  BY <3>4, <3>5
    <2> QED  BY <2>3, <2>4
  <1>3. ASSUME NEW u \in Addresses, TableAt(m, r, u, 3) # None
        PROVE  \E w \in Addresses, n \in 4 .. 4 : Agree(w, u, 3) /\ IsPage(n, EntryAt(m, r, w, n))
    <2>1. 3 \in 1 .. 3 /\ 3 + 1 = 4  OBVIOUS
    <2> QED  BY <1>2, <1>3, <2>1
  <1>4. ASSUME NEW u \in Addresses, TableAt(m, r, u, 2) # None
        PROVE  \E w \in Addresses, n \in 3 .. 4 : Agree(w, u, 2) /\ IsPage(n, EntryAt(m, r, w, n))
    <2>1. 2 \in 1 .. 3 /\ 2 + 1 = 3 /\ 2 + 2 = 4  OBVIOUS
    <2> QED  BY <1>2, <1>3, <1>4, <2>1
  <1>5. ASSUME NEW u \in Addresses, TableAt(m, r, u, 1) # None
        PROVE  \E w \in Addresses, n \in 2 .. 4 : Agree(w, u, 1) /\ IsPage(n, EntryAt(m, r, w, n))
    <2>1. 1 \in 1 .. 3 /\ 1 + 1 = 2 /\ 1 + 2 = 3  OBVIOUS
    <2> QED  BY <1>2, <1>4, <1>5, <2>1
  <1>6. CASE k = 1
    <2>1. 1 + 1 = 2  OBVIOUS
    <2> QED  BY <1>5, <1>6, <2>1
  <1>7. CASE k = 2
    <2>1. 2 + 1 = 3  OBVIOUS
    <2> QED  BY <1>4, <1>7, <2>1
  <1>8. CASE k = 3
    <2>1. 3 + 1 = 4  OBVIOUS
    <2> QED  BY <1>3, <1>8, <2>1
  <1> QED  BY <1>6, <1>7, <1>8

\* How far paging_unmap_page has come when the table of level k + 1 is to be checked.
Up(m, r, apart, v, L, k, s) ==
    /\ s = [mem |-> s.mem, free |-> s.free]
    /\ TreeBeside(s.mem, r, s.free, apart)
    /\ \A n \in 0 .. k : TableAt(s.mem, r, v, n) = TableAt(m, r, v, n)
    /\ NoneEmptyBut(s.mem, r, TableAt(m, r, v, k))
    /\ SamePagesBut(m, s.mem, r, v, L)
    /\ ~IsPage(L, EntryAt(s.mem, r, v, L))
    /\ SameApart(m, s.mem, apart)

\* An empty table is removed from the tables, one that is not is left.
LEMMA TableChecked ==
    ASSUME NEW m, NEW r, NEW apart, NEW v \in Addresses, NEW L \in 2 .. 4, NEW k \in 1 .. 3,
           NEW s, Up(m, r, apart, v, L, k, s),
           TableAt(m, r, v, k) # None,
           NEW d, d = CheckForEmptyTable(s, TableAt(m, r, v, k), TableAt(m, r, v, k - 1), v[k])
    PROVE  Up(m, r, apart, v, L, k - 1, d)
  <1>t. PICK t : t = TableAt(m, r, v, k)  OBVIOUS
  <1>p. PICK p : p = TableAt(m, r, v, k - 1)  OBVIOUS
  <1>1. /\ k \in 0 .. 3 /\ k - 1 \in 0 .. 3 /\ k \in 1 .. 4 /\ k \in 0 .. k /\ k - 1 \in 0 .. k
        /\ \A n \in 0 .. k - 1 : n \in 0 .. k /\ n \in 0 .. 3 /\ n # k
    OBVIOUS
  <1>2. /\ TreeBeside(s.mem, r, s.free, apart)
        /\ s = [mem |-> s.mem, free |-> s.free]
        /\ t = TableAt(s.mem, r, v, k) /\ t # None
        /\ p = TableAt(s.mem, r, v, k - 1)
        /\ \A n \in 0 .. k : TableAt(s.mem, r, v, n) = TableAt(m, r, v, n)
        /\ NoneEmptyBut(s.mem, r, t)
        /\ SamePagesBut(m, s.mem, r, v, L)
        /\ ~IsPage(L, EntryAt(s.mem, r, v, L))
        /\ SameApart(m, s.mem, apart)
    BY <1>t, <1>p, <1>1 DEF Up
  <1>3. CASE \E i \in Index : s.mem[t][i].present
    <2>1. d = s  BY <1>3, <1>t DEF CheckForEmptyTable
    <2>2. NoneEmptyBut(s.mem, r, TableAt(m, r, v, k - 1))
      BY <1>2, <1>3 DEF NoneEmptyBut
    <2> QED  BY <1>1, <1>2, <2>1, <2>2 DEF Up
  <1>4. CASE ~\E i \in Index : s.mem[t][i].present
    <2>1. PICK m2 : m2 = Written(s.mem, TableAt(s.mem, r, v, k - 1), v[k], Absent)
      OBVIOUS
    <2>2. d = [mem |-> m2, free |-> s.free \union {t}]
      BY <1>2, <1>4, <1>t, <1>p, <2>1 DEF CheckForEmptyTable, Written
    <2>3. Bare(s.mem, TableAt(s.mem, r, v, k))
      BY <1>1, <1>2, <1>4, BesideFacts DEF Bare
    <2>4. /\ TreeBeside(m2, r, s.free \union {t}, apart)
          /\ SameApart(s.mem, m2, apart)
          /\ \A f \in Frames \ {p} : m2[f] = s.mem[f]
          /\ \A w \in Addresses :
               /\ \A n \in 0 .. 3 : TableAt(m2, r, w, n) =
                    IF Agree(w, v, k) /\ n = k THEN None ELSE TableAt(s.mem, r, w, n)
               /\ \A n \in 1 .. 4 : EntryAt(m2, r, w, n) =
                    IF Agree(w, v, k) /\ n = k THEN Absent ELSE EntryAt(s.mem, r, w, n)
      <3>1. Unlinked(s.mem, m2, r, s.free \union apart, v, k)
        <4>1. Tree(s.mem, r, s.free \union apart) /\ TableAt(s.mem, r, v, k) # None
          BY <1>2 DEF TreeBeside
        <4> QED  BY <2>1, <2>3, <4>1, TableUnlinked
      <3>2. (s.free \union apart) \union {t} = (s.free \union {t}) \union apart  OBVIOUS
      <3>3. t \notin apart /\ s.free \cap apart = {}
        <4>1. t \notin apart  BY <1>1, <1>2, BesideFacts
        <4> QED  BY <1>2, <4>1 DEF TreeBeside
      <3>4. TreeBeside(m2, r, s.free \union {t}, apart)
        BY <1>2, <3>1, <3>2, <3>3 DEF TreeBeside, Unlinked
      <3>5. p \in TableFrames /\ p \notin apart /\ apart \subseteq Frames
        <4>1. p # None
          <5>1. k - 1 \in 0 .. 3 /\ k \in k - 1 .. 3  OBVIOUS
          <5> QED  BY <1>2, <5>1, NothingBelow
        <4> QED  BY <1>1, <1>2, <4>1, BesideFacts
      <3>6. SameApart(s.mem, m2, apart)  BY <1>2, <3>1, <3>5 DEF SameApart, Unlinked
      <3> QED  BY <1>2, <3>1, <3>4, <3>6 DEF Redirected, Unlinked
    <2>5. \A n \in 0 .. k - 1 : TableAt(m2, r, v, n) = TableAt(m, r, v, n)
      BY <1>1, <1>2, <2>4
    <2>6. NoneEmptyBut(m2, r, p)
      <3> SUFFICES ASSUME NEW w \in Addresses, NEW n \in 1 .. 3, TableAt(m2, r, w, n) \notin {None, p}
                   PROVE  \E i \in Index : m2[TableAt(m2, r, w, n)][i].present
        BY DEF NoneEmptyBut
      <3>1. n \in 0 .. 3 /\ ~(Agree(w, v, k) /\ n = k)  BY <2>4
      <3>2. TableAt(m2, r, w, n) = TableAt(s.mem, r, w, n)  BY <2>4, <3>1
      <3>3. TableAt(s.mem, r, w, n) # t
        BY <1>1, <1>2, <3>1, BesideFacts DEF OnePlaceEach
      <3>4. \E i \in Index : s.mem[TableAt(s.mem, r, w, n)][i].present
        BY <1>2, <3>2, <3>3 DEF NoneEmptyBut
      <3>5. TableAt(s.mem, r, w, n) \in Frames \ {p}  BY <1>2, <3>1, <3>2, BesideFacts
      <3> QED  BY <2>4, <3>2, <3>4, <3>5
    <2>7. SamePages(s.mem, m2, r)
      <3> SUFFICES ASSUME NEW w \in Addresses, NEW n \in 1 .. 4,
                          IsPage(n, EntryAt(s.mem, r, w, n)) \/ IsPage(n, EntryAt(m2, r, w, n))
                   PROVE  EntryAt(m2, r, w, n) = EntryAt(s.mem, r, w, n)
        BY DEF SamePages
      <3>1. ~(Agree(w, v, k) /\ n = k)
        <4> SUFFICES ASSUME Agree(w, v, k), n = k PROVE FALSE  OBVIOUS
        <4>1. TableAt(s.mem, r, w, k) = t
          <5>1. k \in 0 .. 4 /\ k <= k  BY <1>1
          <5> QED  BY <1>1, <1>2, <5>1, AgreeSame
        <4>2. ~IsPage(k, EntryAt(s.mem, r, w, k))
          BY <1>2, <4>1, TableStep, BelowFacts
        <4>3. EntryAt(m2, r, w, k) = Absent /\ ~IsPage(k, Absent)
          BY <1>1, <2>4, BelowFacts
        <4> QED  BY <4>2, <4>3
      <3> QED  BY <2>4, <3>1
    <2>8. SamePagesBut(m, m2, r, v, L)
      <3> SUFFICES ASSUME NEW w \in Addresses, NEW n \in 1 .. 4, ~(Agree(w, v, L) /\ n = L),
                          IsPage(n, EntryAt(m, r, w, n)) \/ IsPage(n, EntryAt(m2, r, w, n))
                   PROVE  EntryAt(m2, r, w, n) = EntryAt(m, r, w, n)
        BY DEF SamePagesBut
      <3>1. IsPage(n, EntryAt(m, r, w, n)) \/ IsPage(n, EntryAt(s.mem, r, w, n))
              => EntryAt(s.mem, r, w, n) = EntryAt(m, r, w, n)
        BY <1>2 DEF SamePagesBut
      <3>2. IsPage(n, EntryAt(s.mem, r, w, n)) \/ IsPage(n, EntryAt(m2, r, w, n))
              => EntryAt(m2, r, w, n) = EntryAt(s.mem, r, w, n)
        BY <2>7 DEF SamePages
      <3> QED  BY <3>1, <3>2
    <2>9. ~IsPage(L, EntryAt(m2, r, v, L))
      <3>1. L \in 1 .. 4  OBVIOUS
      <3> QED  BY <1>2, <2>7, <3>1 DEF SamePages
    <2>10. SameApart(m, m2, apart)  BY <1>2, <2>4 DEF SameApart
    <2>11. /\ d.mem = m2 /\ d = [mem |-> d.mem, free |-> d.free]
           /\ TreeBeside(d.mem, r, d.free, apart)
      BY <2>2, <2>4
    <2> QED  BY <1>p, <2>5, <2>6, <2>8, <2>9, <2>10, <2>11 DEF Up
  <1> QED  BY <1>3, <1>4

\* The walk that goes down through every present entry follows tables only,
\* if it meets no page.
LEMMA EnteredIsTable ==
    ASSUME NEW m, NEW r, NEW v, NEW k \in 1 .. 3, ~IsPage(k, EntryAt(m, r, v, k))
    PROVE  Entered(m, TableAt(m, r, v, k - 1), v[k]) = TableAt(m, r, v, k)
  <1>1. /\ TableAt(m, r, v, k) = Below(k, EntryAt(m, r, v, k))
        /\ EntryAt(m, r, v, k) = EntryIn(m, TableAt(m, r, v, k - 1), v[k])
    BY TableStep
  <1>2. EntryAt(m, r, v, k).present => EntryAt(m, r, v, k) = m[TableAt(m, r, v, k - 1)][v[k]]
    BY <1>1, EntryFacts DEF EntryIn
  <1> QED  BY <1>1, <1>2 DEF Entered, Below

\* Clearing the entry of a page is the first step of unmapping it.
LEMMA LeafCleared ==
    ASSUME NEW m, NEW r, NEW fr, NEW apart, TreeBeside(m, r, fr, apart), NoneEmptyBut(m, r, r),
           NEW v \in Addresses, NEW L \in 2 .. 4,
           TableAt(m, r, v, L - 1) # None,
           L # 4 => TableAt(m, r, v, L) = None,
           NEW s, s = [mem |-> m, free |-> fr],
           NEW d, d = ClearLeaf(s, TableAt(m, r, v, L - 1), v[L])
    PROVE  Up(m, r, apart, v, L, L - 1, d)
  <1>1. L \in 1 .. 4 /\ L - 1 \in 0 .. 3  OBVIOUS
  <1>2. PICK m2 : m2 = Written(m, TableAt(m, r, v, L - 1), v[L], Absent)  OBVIOUS
  <1>3. d = [mem |-> m2, free |-> fr]  BY <1>2 DEF ClearLeaf, Written
  <1>4. Below(L, Absent) = None /\ ~IsPage(L, Absent) /\ Absent \in Entries
    BY <1>1, BelowFacts, EntryFacts
  <1>5. /\ TreeBeside(m2, r, fr, apart)
        /\ SameApart(m, m2, apart)
        /\ \A f \in Frames, i \in Index : m2[f][i] =
             IF f = TableAt(m, r, v, L - 1) /\ i = v[L] THEN Absent ELSE m[f][i]
        /\ \A w \in Addresses :
             /\ \A n \in 0 .. 3 : TableAt(m2, r, w, n) = TableAt(m, r, w, n)
             /\ \A n \in 1 .. 4 : EntryAt(m2, r, w, n) =
                  IF Agree(w, v, L) /\ n = L THEN Absent ELSE EntryAt(m, r, w, n)
    <2>1. Tree(m, r, fr \union apart)  BY DEF TreeBeside
    <2>2. /\ Tree(m2, r, fr \union apart)
          /\ \A f \in Frames \ {TableAt(m, r, v, L - 1)} : m2[f] = m[f]
          /\ \A f \in Frames, i \in Index : m2[f][i] =
               IF f = TableAt(m, r, v, L - 1) /\ i = v[L] THEN Absent ELSE m[f][i]
          /\ \A w \in Addresses :
               /\ \A n \in 0 .. 3 : TableAt(m2, r, w, n) = TableAt(m, r, w, n)
               /\ \A n \in 1 .. 4 : EntryAt(m2, r, w, n) =
                    IF Agree(w, v, L) /\ n = L THEN Absent ELSE EntryAt(m, r, w, n)
      <3>1. PICK f : f = fr \union apart  OBVIOUS
      <3>2. LeafChanged(m, m2, r, f, v, L, Absent)  BY <1>1, <1>2, <1>4, <2>1, <3>1, LeafWritten
      <3> QED  BY <3>1, <3>2 DEF LeafChanged
    <2>3. TreeBeside(m2, r, fr, apart)  BY <2>2 DEF TreeBeside
    <2>4. SameApart(m, m2, apart)
      <3>1. PICK t : t = TableAt(m, r, v, L - 1)  OBVIOUS
      <3>2. t \in TableFrames /\ t \notin apart /\ apart \subseteq Frames
        BY <1>1, <3>1, BesideFacts
      <3>3. \A f \in Frames \ {t} : m2[f] = m[f]  BY <2>2, <3>1
      <3> QED  BY <3>2, <3>3 DEF SameApart
    <2> QED  BY <2>2, <2>3, <2>4
  <1>6. \A n \in 0 .. L - 1 : TableAt(m2, r, v, n) = TableAt(m, r, v, n)
    <2>1. \A n \in 0 .. L - 1 : n \in 0 .. 3  OBVIOUS
    <2> QED  BY <1>5, <2>1
  <1>7. NoneEmptyBut(m2, r, TableAt(m, r, v, L - 1))
    <2> SUFFICES ASSUME NEW w \in Addresses, NEW n \in 1 .. 3,
                        TableAt(m2, r, w, n) \notin {None, TableAt(m, r, v, L - 1)}
                 PROVE  \E i \in Index : m2[TableAt(m2, r, w, n)][i].present
      BY DEF NoneEmptyBut
    <2>1. n \in 0 .. 3 /\ TableAt(m2, r, w, n) = TableAt(m, r, w, n)  BY <1>5
    <2>2. TableAt(m, r, w, n) \in Frames  BY <2>1, BesideFacts
    <2>3. TableAt(m, r, w, n) # r
      <3>1. TableAt(m, r, w, 0) = r /\ 0 \in 0 .. 3 /\ n # 0  BY TableStep
      <3> QED  BY <2>1, <3>1, BesideFacts DEF OnePlaceEach
    <2>4. PICK i \in Index : m[TableAt(m, r, w, n)][i].present
      BY <2>1, <2>3 DEF NoneEmptyBut
    <2> QED  BY <1>5, <2>1, <2>2, <2>4
  <1>8. SamePagesBut(m, m2, r, v, L)  BY <1>5 DEF SamePagesBut
  <1>9. ~IsPage(L, EntryAt(m2, r, v, L))
    <2>1. Agree(v, v, L)  BY DEF Agree
    <2> QED  BY <1>1, <1>4, <1>5, <2>1
  <1> QED  BY <1>3, <1>5, <1>6, <1>7, <1>8, <1>9 DEF Up

\* Unmapping a page unmaps that page and no other, or nothing.
LEMMA PageUnmapped ==
    ASSUME NEW m, NEW r, NEW fr, NEW apart, TreeBeside(m, r, fr, apart), NoneEmptyBut(m, r, r),
           NEW page \in Pages, NEW v \in Addresses,
           NEW L, L = Len(page), Prefix(v, L) = page,
           \A n \in 1 .. L - 1 : ~IsPage(n, EntryAt(m, r, v, n)),
           L # 4 => TableAt(m, r, v, L) = None,
           NEW s, s = [mem |-> m, free |-> fr],
           NEW d, d = Unmapped(s, r, page)
    PROVE  /\ TreeBeside(d.mem, r, d.free, apart)
           /\ NoneEmptyBut(d.mem, r, r)
           /\ SameApart(m, d.mem, apart)
           /\ \/ /\ d.status = PAGING_OK
                 /\ SamePagesBut(m, d.mem, r, v, L)
                 /\ ~IsPage(L, EntryAt(d.mem, r, v, L))
              \/ /\ d.status = PAGING_ERROR
                 /\ d.mem = m
                 /\ ~IsPage(L, EntryAt(m, r, v, L))
  <1>1. /\ L \in 2 .. 4 /\ L \in 1 .. 4 /\ L - 1 \in 0 .. 3
        /\ \A n \in 1 .. L : page[n] = v[n]
    <2>1. L \in 2 .. 4 /\ \A n \in 1 .. L : page[n] = v[n]  BY PageFacts DEF Agree
    <2> QED  BY <2>1
  <1>2. PICK pdpr : pdpr = Entered(m, r, page[1])  OBVIOUS
  <1>3. PICK pd : pd = Entered(m, pdpr, page[2])  OBVIOUS
  <1>4. PICK pt : pt = Entered(m, pd, page[3])  OBVIOUS
  <1>5. pdpr = TableAt(m, r, v, 1)
    <2>1. 1 \in 1 .. L - 1 /\ 1 - 1 = 0 /\ 1 \in 1 .. L /\ 1 \in 1 .. 3  BY <1>1
    <2>2. TableAt(m, r, v, 0) = r  BY TableStep
    <2> QED  BY <1>1, <1>2, <2>1, <2>2, EnteredIsTable
  <1>6. L > 2 => pd = TableAt(m, r, v, 2)
    <2> SUFFICES ASSUME L > 2 PROVE pd = TableAt(m, r, v, 2)  OBVIOUS
    <2>1. 2 \in 1 .. L - 1 /\ 2 - 1 = 1 /\ 2 \in 1 .. L /\ 2 \in 1 .. 3  BY <1>1
    <2> QED  BY <1>1, <1>3, <1>5, <2>1, EnteredIsTable
  <1>7. L > 3 => pt = TableAt(m, r, v, 3)
    <2> SUFFICES ASSUME L > 3 PROVE pt = TableAt(m, r, v, 3)  OBVIOUS
    <2>1. 3 \in 1 .. L - 1 /\ 3 - 1 = 2 /\ 3 \in 1 .. L /\ 3 \in 1 .. 3  BY <1>1
    <2> QED  BY <1>1, <1>4, <1>6, <2>1, EnteredIsTable
  <1>8. PICK table : table = CASE L = 2 -> pdpr [] L = 3 -> pd [] L = 4 -> pt  OBVIOUS
  <1>9. table = TableAt(m, r, v, L - 1)
    <2>1. CASE L = 2
      <3>1. 2 - 1 = 1  OBVIOUS
      <3> QED  BY <2>1, <3>1, <1>5, <1>8
    <2>2. CASE L = 3
      <3>1. 3 - 1 = 2 /\ 3 > 2  OBVIOUS
      <3> QED  BY <2>2, <3>1, <1>6, <1>8
    <2>3. CASE L = 4
      <3>1. 4 - 1 = 3 /\ 4 > 3  OBVIOUS
      <3> QED  BY <2>3, <3>1, <1>7, <1>8
    <2> QED  BY <1>1, <2>1, <2>2, <2>3
  <1>10. PICK cleared : cleared = ClearLeaf(s, table, v[L])  OBVIOUS
  <1>11. PICK pt_checked : pt_checked = IF L < 4 THEN cleared
                                        ELSE CheckForEmptyTable(cleared, pt, pd, page[3])
    OBVIOUS
  <1>12. PICK pd_checked : pd_checked = IF L < 3 THEN pt_checked
                                        ELSE CheckForEmptyTable(pt_checked, pd, pdpr, page[2])
    OBVIOUS
  <1>13. PICK pdpr_checked : pdpr_checked = CheckForEmptyTable(pd_checked, pdpr, r, page[1])
    OBVIOUS
  <1> DEFINE error == table = None \/ (L < 4 /\ ~m[table][v[L]].present)
  <1>15. d = IF error THEN [mem |-> m, free |-> fr, status |-> PAGING_ERROR]
             ELSE [mem |-> pdpr_checked.mem, free |-> pdpr_checked.free, status |-> PAGING_OK]
    <2>1. table = CASE Len(page) = 2 -> pdpr [] Len(page) = 3 -> pd [] Len(page) = 4 -> pt
      BY <1>8
    <2>2. page[L] = v[L] /\ s.mem = m /\ s.free = fr  BY <1>1
    <2>3. pdpr_checked = CheckTables(cleared, r, pdpr, pd, pt, page)
      BY <1>11, <1>12, <1>13 DEF CheckTables
    <2>4. cleared = ClearLeaf(s, table, page[L])  BY <1>10, <2>2
    <2> QED  BY <1>2, <1>3, <1>4, <2>1, <2>2, <2>3, <2>4 DEF Unmapped
  <1>16. CASE error
    <2>1. d.mem = m /\ d.free = fr /\ d.status = PAGING_ERROR  BY <1>15, <1>16
    <2>2. ~EntryAt(m, r, v, L).present
      <3>1. EntryAt(m, r, v, L) = IF table = None THEN Absent ELSE m[table][v[L]]
        BY <1>1, <1>9, TableStep DEF EntryIn
      <3> QED  BY <1>16, <3>1, EntryFacts
    <2> QED  BY <2>1, <2>2 DEF SameApart, IsPage
  <1>17. CASE ~error
    <2>1. TableAt(m, r, v, L - 1) # None  BY <1>9, <1>17
    <2>2. \A n \in 0 .. L - 1 : TableAt(m, r, v, n) # None
      <3> TAKE n \in 0 .. L - 1
      <3>1. n \in 0 .. 3 /\ L - 1 \in n .. 3  BY <1>1
      <3> QED  BY <2>1, <3>1, NothingBelow
    <2>3. Up(m, r, apart, v, L, L - 1, cleared)  BY <1>1, <1>9, <1>10, <2>1, LeafCleared
    <2>4. L = 4 => Up(m, r, apart, v, L, 2, pt_checked)
      <3> SUFFICES ASSUME L = 4 PROVE Up(m, r, apart, v, L, 2, pt_checked)  OBVIOUS
      <3>1. 3 - 1 = 2 /\ 4 - 1 = 3 /\ 3 \in 1 .. 3 /\ 3 \in 1 .. L /\ 3 \in 0 .. L - 1 /\ L > 3 /\ L > 2
        OBVIOUS
      <3>2. pt_checked = CheckForEmptyTable(cleared, TableAt(m, r, v, 3), TableAt(m, r, v, 2), v[3])
        BY <1>1, <1>6, <1>7, <1>11, <3>1
      <3> QED  BY <1>1, <2>2, <2>3, <3>1, <3>2, TableChecked
    <2>5. L = 3 => Up(m, r, apart, v, L, 2, pt_checked)
      <3>1. 3 - 1 = 2  OBVIOUS
      <3> QED  BY <1>11, <2>3, <3>1
    <2>6. L > 2 => Up(m, r, apart, v, L, 1, pd_checked)
      <3> SUFFICES ASSUME L > 2 PROVE Up(m, r, apart, v, L, 1, pd_checked)  OBVIOUS
      <3>1. 2 - 1 = 1 /\ 2 \in 1 .. 3 /\ 2 \in 1 .. L /\ 2 \in 0 .. L - 1 /\ ~(L < 3) /\ (L = 3 \/ L = 4)
        BY <1>1
      <3>2. pd_checked = CheckForEmptyTable(pt_checked, TableAt(m, r, v, 2), TableAt(m, r, v, 1), v[2])
        BY <1>1, <1>5, <1>6, <1>12, <3>1
      <3> QED  BY <1>1, <2>2, <2>4, <2>5, <3>1, <3>2, TableChecked
    <2>7. L = 2 => Up(m, r, apart, v, L, 1, pd_checked)
      <3>1. 2 - 1 = 1  OBVIOUS
      <3> QED  BY <1>11, <1>12, <2>3, <3>1
    <2>8. Up(m, r, apart, v, L, 0, pdpr_checked)
      <3>1. 1 - 1 = 0 /\ 1 \in 1 .. 3 /\ 1 \in 1 .. L /\ 1 \in 0 .. L - 1 /\ (L = 2 \/ L > 2)
        BY <1>1
      <3>2. TableAt(m, r, v, 0) = r  BY TableStep
      <3>3. pdpr_checked = CheckForEmptyTable(pd_checked, TableAt(m, r, v, 1), TableAt(m, r, v, 0), v[1])
        BY <1>1, <1>5, <1>13, <3>1, <3>2
      <3> QED  BY <1>1, <2>2, <2>6, <2>7, <3>1, <3>3, TableChecked
    <2>9. d.mem = pdpr_checked.mem /\ d.free = pdpr_checked.free /\ d.status = PAGING_OK
      BY <1>15, <1>17
    <2>10. TableAt(m, r, v, 0) = r  BY TableStep
    <2> QED  BY <2>8, <2>9, <2>10 DEF Up
  <1> QED  BY <1>16, <1>17

-----------------------------------------------------------------------------
(* The pages that contain addresses, and each other.                       *)

\* A page's entry is that of the addresses it contains.
LEMMA PageEntryIs ==
    ASSUME NEW page \in Pages, NEW v, Prefix(v, Len(page)) = page, NEW m, NEW r
    PROVE  /\ PageEntry(m, r, page) = EntryAt(m, r, v, Len(page))
           /\ \A n \in 0 .. 3 : n <= Len(page) => TableAt(m, r, page, n) = TableAt(m, r, v, n)
  <1>1. /\ Len(page) \in 1 .. 4 /\ Len(page) \in 0 .. 4 /\ Len(page) <= Len(page)
        /\ Agree(v, page, Len(page))
    BY PageFacts
  <1>2. EntryAt(m, r, v, Len(page)) = EntryAt(m, r, page, Len(page))
    BY <1>1, AgreeSame
  <1>3. \A n \in 0 .. 3 : n <= Len(page) => TableAt(m, r, v, n) = TableAt(m, r, page, n)
    BY <1>1, AgreeSame
  <1> QED  BY <1>2, <1>3 DEF PageEntry

\* One page begins like another.
LEMMA PrefixIs ==
    ASSUME NEW a \in Nat, NEW b \in Nat, NEW p \in [1 .. a -> Index], NEW q \in [1 .. b -> Index]
    PROVE  IsPrefix(p, q) <=> a <= b /\ \A n \in 1 .. a : p[n] = q[n]
  <1>1. Len(p) = a /\ Len(q) = b /\ p \in Seq(Index) /\ q \in Seq(Index)  OBVIOUS
  <1>2. SubSeq(p, 1, a) = p  BY <1>1
  <1>3. ASSUME a <= b PROVE SubSeq(q, 1, a) = [n \in 1 .. a |-> q[n]]  BY <1>1, <1>3
  <1>4. (p = [n \in 1 .. a |-> q[n]]) <=> \A n \in 1 .. a : p[n] = q[n]  OBVIOUS
  <1> QED  BY <1>1, <1>2, <1>3, <1>4 DEF IsPrefix

\* An address lies in the page that is a beginning of it.
LEMMA AddressIn ==
    ASSUME NEW page \in Pages, NEW v \in Addresses
    PROVE  IsPrefix(page, v) => Prefix(v, Len(page)) = page
  <1>1. Len(page) \in Nat /\ page \in [1 .. Len(page) -> Index]  BY PageFacts
  <1>2. v \in [1 .. 4 -> Index] /\ 4 \in Nat  BY DEF Addresses
  <1>3. IsPrefix(page, v) => \A n \in 1 .. Len(page) : page[n] = v[n]  BY <1>1, <1>2, PrefixIs
  <1>4. (\A n \in 1 .. Len(page) : page[n] = v[n]) => [n \in 1 .. Len(page) |-> v[n]] = page
    BY <1>1
  <1> QED  BY <1>3, <1>4 DEF Prefix

\* The page of level n has n indices.
LEMMA PrefixLen ==
    ASSUME NEW v \in Addresses, NEW n \in 1 .. 4
    PROVE  Prefix(v, n) \in [1 .. n -> Index] /\ Len(Prefix(v, n)) = n
  <1>1. Prefix(v, n) \in [1 .. n -> Index]  BY DEF Prefix, Addresses
  <1> QED  BY <1>1

\* Of two pages that have their beginning in common one lies inside the other.
LEMMA PrefixesNest ==
    ASSUME NEW v \in Addresses, NEW w \in Addresses, NEW j \in 1 .. 4, NEW k \in 1 .. 4, j < k,
           Agree(w, v, j)
    PROVE  Inside(Prefix(w, k), Prefix(v, j))
  <1>p. PICK p : p = Prefix(v, j)  OBVIOUS
  <1>q. PICK q : q = Prefix(w, k)  OBVIOUS
  <1>1. p \in [1 .. j -> Index] /\ q \in [1 .. k -> Index]  BY <1>p, <1>q, PrefixLen
  <1>2. Len(p) = j /\ Len(q) = k  BY <1>p, <1>q, PrefixLen
  <1>3. \A n \in 1 .. j : p[n] = q[n]  BY <1>p, <1>q DEF Prefix, Agree
  <1>4. IsPrefix(p, q)
    <2>1. j \in Nat /\ k \in Nat /\ j <= k  OBVIOUS
    <2> QED  BY <1>1, <1>3, <2>1, PrefixIs
  <1>5. p # q  BY <1>2
  <1> QED  BY <1>4, <1>5, <1>p, <1>q DEF Inside, IsStrictPrefix

\* A page is mapped in memory m.
PageMappedIn(m, r, page) == IsPage(Len(page), PageEntry(m, r, page))

\* The same pages of a set are mapped, to the same frames.
Kept(m, m2, r, pages) ==
    \A q \in pages : PageMappedIn(m, r, q) \/ PageMappedIn(m2, r, q)
                       => PageEntry(m2, r, q) = PageEntry(m, r, q)

\* Pages of callers stay as they are if the pages of all addresses but one do.
LEMMA KeptFacts ==
    ASSUME NEW m, NEW m2, NEW r
    PROVE  /\ SamePages(m, m2, r) => Kept(m, m2, r, Pages)
           /\ \A page \in Pages, v \in Addresses :
                Prefix(v, Len(page)) = page /\ SamePagesBut(m, m2, r, v, Len(page))
                  => Kept(m, m2, r, Pages \ {page})
  <1>1. ASSUME NEW q \in Pages
        PROVE  \E w \in Addresses : /\ Prefix(w, Len(q)) = q
                                    /\ PageEntry(m, r, q) = EntryAt(m, r, w, Len(q))
                                    /\ PageEntry(m2, r, q) = EntryAt(m2, r, w, Len(q))
    BY PageFacts, PageEntryIs
  <1>2. \A q \in Pages : Len(q) \in 1 .. 4  BY PageFacts
  <1>3. SamePages(m, m2, r) => Kept(m, m2, r, Pages)
    BY <1>1, <1>2 DEF SamePages, Kept, PageMappedIn
  <1>4. ASSUME NEW page \in Pages, NEW v \in Addresses, Prefix(v, Len(page)) = page,
               SamePagesBut(m, m2, r, v, Len(page)),
               NEW q \in Pages \ {page}, PageMappedIn(m, r, q) \/ PageMappedIn(m2, r, q)
        PROVE  PageEntry(m2, r, q) = PageEntry(m, r, q)
    <2>1. PICK w \in Addresses : /\ Prefix(w, Len(q)) = q
                                 /\ PageEntry(m, r, q) = EntryAt(m, r, w, Len(q))
                                 /\ PageEntry(m2, r, q) = EntryAt(m2, r, w, Len(q))
      BY <1>1
    <2>2. ~(Agree(w, v, Len(page)) /\ Len(q) = Len(page))
      <3> SUFFICES ASSUME Agree(w, v, Len(page)), Len(q) = Len(page) PROVE FALSE  OBVIOUS
      <3>1. Prefix(w, Len(page)) = Prefix(v, Len(page))  BY DEF Agree, Prefix
      <3> QED  BY <1>4, <2>1, <3>1
    <2> QED  BY <1>2, <1>4, <2>1, <2>2 DEF SamePagesBut, PageMappedIn
  <1> QED  BY <1>3, <1>4 DEF Kept

-----------------------------------------------------------------------------
(* The inductive invariant.                                                *)

\* The tables of the address space are a tree, and no table but the PML4 is empty.
TablesInv == Tree(mem, root, free) /\ NoneEmptyBut(mem, root, root)

\* The same, with frames set apart for another address space.
SpaceInv(apart) == TreeBeside(mem, root, free, apart) /\ NoneEmptyBut(mem, root, root)

\* With one address space none are.
LEMMA NothingApart ==
    /\ TablesInv <=> SpaceInv({})
    /\ TablesInv' <=> SpaceInv({})'
  <1>1. TablesInv <=> SpaceInv({})
    <2>1. free \union {} = free /\ free \cap {} = {}  OBVIOUS
    <2> QED  BY <2>1, Zenon DEF TablesInv, SpaceInv, TreeBeside
  <1>2. TablesInv' <=> SpaceInv({})'
    <2>1. free' \union {} = free' /\ free' \cap {} = {}  OBVIOUS
    <2> QED  BY <2>1, Zenon DEF TablesInv, SpaceInv, TreeBeside
  <1> QED  BY <1>1, <1>2

\* What the processor has cached is still mapped.
TlbInv == tlb \subseteq [page : Pages, phys : DataFrames] /\ TlbCoherent

\* An empty PML4 is a tree, and the TLB is empty.
LEMMA TablesInvInit == Init => TablesInv /\ TlbInv
  <1> SUFFICES ASSUME Init PROVE TablesInv /\ TlbInv  OBVIOUS
  <1>1. root \in TableFrames /\ free = TableFrames \ {root}
    BY FramesAssumption DEF Init, PmmAlloc
  <1>2. mem \in Memories
    <2>1. NULL \in Frames  BY DEF Frames
    <2>2. StaleTable \in [Index -> Entries] /\ EmptyTable \in [Index -> Entries]
      BY <2>1, EntryFacts DEF StaleTable, EmptyTable
    <2> QED  BY <2>2 DEF Init, Memories
  <1>3. mem[root] = EmptyTable
    BY <1>1, FrameFacts DEF Init
  <1>4. \A v \in Addresses :
          /\ TableAt(mem, root, v, 0) = root
          /\ \A n \in 1 .. 3 : TableAt(mem, root, v, n) = None
          /\ \A n \in 1 .. 4 : EntryAt(mem, root, v, n) = Absent
    <2> TAKE v \in Addresses
    <2>1. TableAt(mem, root, v, 0) = root  BY TableStep
    <2>2. EntryAt(mem, root, v, 1) = Absent
      <3>1. v[1] \in Index /\ 1 - 1 = 0  BY DEF Addresses
      <3> QED  BY <1>1, <1>3, <2>1, <3>1, TableStep, FrameFacts DEF EntryIn, EmptyTable
    <2>3. TableAt(mem, root, v, 1) = None  BY <2>2, TableStep, BelowFacts
    <2>4. 1 \in 0 .. 3 /\ 1 + 1 = 2  OBVIOUS
    <2>5. /\ \A n \in 1 .. 3 : TableAt(mem, root, v, n) = None
          /\ \A n \in 2 .. 4 : EntryAt(mem, root, v, n) = Absent
      BY <2>3, <2>4, NothingBelow
    <2>6. \A n \in 1 .. 4 : n = 1 \/ n \in 2 .. 4  OBVIOUS
    <2> QED  BY <2>1, <2>2, <2>5, <2>6
  <1>5. \A n \in 0 .. 3 : n = 0 \/ n \in 1 .. 3  OBVIOUS
  <1>6. TablesInUse(mem, root, free)
    BY <1>1, <1>4, <1>5 DEF TablesInUse
  <1>7. OnePlaceEach(mem, root)
    BY <1>4, <1>5 DEF OnePlaceEach, Agree
  <1>8. NoneLost(mem, root, free)
    <2>1. PICK i : i \in Index  BY IndexAssumption
    <2>2. [n \in 1 .. 4 |-> i] \in Addresses /\ 0 \in 0 .. 3  BY <2>1 DEF Addresses
    <2> QED  BY <1>1, <1>4, <2>2 DEF NoneLost
  <1>9. PagesAreCallers(mem, root)
    BY <1>4, BelowFacts DEF PagesAreCallers
  <1>10. NoneEmptyBut(mem, root, root)
    BY <1>4 DEF NoneEmptyBut
  <1>11. TlbInv  BY DEF Init, TlbInv, TlbCoherent
  <1> QED  BY <1>1, <1>2, <1>6, <1>7, <1>8, <1>9, <1>10, <1>11 DEF TablesInv, Tree

\* The walk to a page that lies inside no mapped page meets no page.
LEMMA NoPageAbove ==
    ASSUME NEW apart, SpaceInv(apart), NEW page \in Pages, \A q \in MappedPages : ~Inside(page, q),
           NEW v \in Addresses, Prefix(v, Len(page)) = page
    PROVE  \A n \in 1 .. Len(page) - 1 : ~IsPage(n, EntryAt(mem, root, v, n))
  <1> SUFFICES ASSUME NEW n \in 1 .. Len(page) - 1, IsPage(n, EntryAt(mem, root, v, n)) PROVE FALSE
    OBVIOUS
  <1>1. Len(page) \in 1 .. 4 /\ n \in 1 .. 4 /\ n < Len(page)  BY PageFacts
  <1>2. Prefix(v, n) \in Pages  BY <1>1, BesideFacts DEF SpaceInv, PagesAreCallers
  <1>3. Agree(v, v, n)  BY DEF Agree
  <1>4. Inside(page, Prefix(v, n)) /\ Len(Prefix(v, n)) = n
    <2>1. Inside(Prefix(v, Len(page)), Prefix(v, n))  BY <1>1, <1>3, PrefixesNest
    <2>2. Len(Prefix(v, n)) = n  BY <1>1, PrefixLen
    <2> QED  BY <2>1, <2>2
  <1>5. PageEntry(mem, root, Prefix(v, n)) = EntryAt(mem, root, v, n)  BY <1>2, <1>4, PageEntryIs
  <1> QED  BY <1>2, <1>4, <1>5 DEF MappedPages

\* A page that is found below the first j indices of an address is mapped and
\* lies inside whatever these indices stand for.
LEMMA PageInside ==
    ASSUME NEW apart, SpaceInv(apart), NEW v \in Addresses, NEW w \in Addresses, NEW j \in 1 .. 4, NEW k \in 1 .. 4,
           j < k, Agree(w, v, j), IsPage(k, EntryAt(mem, root, w, k))
    PROVE  \E q \in MappedPages : Inside(q, Prefix(v, j))
  <1>1. Prefix(w, k) \in Pages  BY BesideFacts DEF SpaceInv, PagesAreCallers
  <1>2. Inside(Prefix(w, k), Prefix(v, j))  BY PrefixesNest
  <1>3. Len(Prefix(w, k)) = k  BY PrefixLen
  <1>4. PageEntry(mem, root, Prefix(w, k)) = EntryAt(mem, root, w, k)  BY <1>1, <1>3, PageEntryIs
  <1> QED  BY <1>1, <1>2, <1>3, <1>4 DEF MappedPages

\* A large page that contains no mapped page has no table in its place.
LEMMA NoTableThere ==
    ASSUME NEW apart, SpaceInv(apart), NEW page \in Pages, \A q \in MappedPages : ~Inside(q, page),
           NEW v \in Addresses, Prefix(v, Len(page)) = page, Len(page) # 4
    PROVE  TableAt(mem, root, v, Len(page)) = None
  <1> SUFFICES ASSUME TableAt(mem, root, v, Len(page)) # None PROVE FALSE  OBVIOUS
  <1>1. PICK L \in 2 .. 3 : L = Len(page)  BY PageFacts
  <1>2. PICK w \in Addresses, n \in L + 1 .. 4 : Agree(w, v, L) /\ IsPage(n, EntryAt(mem, root, w, n))
    BY <1>1, PageBelow DEF SpaceInv, TreeBeside
  <1>3. L \in 1 .. 4 /\ n \in 1 .. 4 /\ L < n  OBVIOUS
  <1>4. \E q \in MappedPages : Inside(q, Prefix(v, L))  BY <1>2, <1>3, PageInside
  <1> QED  BY <1>1, <1>4

\* What a step of a careful caller does to the pages.
MapsOne(page, phys) ==
    /\ status' = PAGING_OK
    /\ ~PageEntry(mem, root, page).present
    /\ PageEntry(mem', root, page) = EntryFor(phys, Len(page) < 4)
    /\ Kept(mem, mem', root, Pages \ {page})
    /\ tlb' = InvalidateTlb(page)

\* One page is unmapped and dropped from the TLB.
UnmapsOne(page) ==
    /\ status' = PAGING_OK
    /\ ~PageMappedIn(mem', root, page)
    /\ Kept(mem, mem', root, Pages \ {page})
    /\ tlb' = InvalidateTlb(page)

\* Nothing a caller can see is changed.
KeepsAll == Kept(mem, mem', root, Pages) /\ tlb' = tlb

\* Mapping maps the one page or, where something is mapped already, none.
LEMMA CarefulMapStep ==
    ASSUME NEW apart, SpaceInv(apart), NEW page \in Pages, NEW phys \in DataFrames,
           \A q \in MappedPages : ~Inside(page, q),
           TablesNeeded(page) <= Cardinality(free),
           MapPage(page, phys, Len(page) < 4)
    PROVE  /\ SpaceInv(apart)' /\ root' = root /\ SameApart(mem, mem', apart)
           /\ MapsOne(page, phys) \/ KeepsAll
  <1>1. PICK L : L = Len(page)  OBVIOUS
  <1>2. PICK v \in Addresses : Prefix(v, L) = page  BY <1>1, PageFacts
  <1>3. PICK d : d = Mapped(State, root, page, phys, L < 4)  OBVIOUS
  <1>4. /\ mem' = d.mem /\ free' = d.free /\ status' = d.status /\ root' = root
        /\ tlb' = IF d.status = PAGING_OK THEN InvalidateTlb(page) ELSE tlb
    BY <1>1, <1>3 DEF MapPage
  <1>5. State.mem = mem /\ State.free = free  BY DEF State
  <1>6. L \in 2 .. 4  BY <1>1, PageFacts
  <1>e. PICK e : e = EntryFor(phys, L < 4)  OBVIOUS
  <1>p. /\ e \in Entries /\ IsPage(L, e) /\ e.base \in DataFrames
        /\ d = Mapped(State, root, page, e.base, e.page_size)
    <2>1. e \in Entries /\ e.base = phys
      <3>1. (L < 4) \in BOOLEAN /\ phys \in Frames  BY FrameFacts
      <3> QED  BY <1>e, <3>1, EntryFacts, Zenon
    <2>2. e.page_size = (L < 4)  BY <1>e, EntryFacts, Zenon
    <2>3. IsPage(L, e)  BY <1>e, <1>6, LeafIsPage
    <2>4. d = Mapped(State, root, page, e.base, e.page_size)  BY <1>3, <2>1, <2>2, Zenon
    <2> QED  BY <2>1, <2>3, <2>4
  <1>7. Cardinality(Missing(mem, root, v, 1, L)) <= Cardinality(free)
    <2>1. \A n \in 1 .. L - 1 : TableAt(mem, root, page, n) = TableAt(mem, root, v, n)
      <3>1. \A n \in 1 .. L - 1 : n \in 0 .. 3 /\ n <= L  BY <1>6
      <3> QED  BY <1>1, <1>2, <3>1, PageEntryIs
    <2>2. Missing(mem, root, v, 1, L) = {n \in 1 .. Len(page) - 1 : TableAt(mem, root, page, n) = None}
      BY <1>1, <2>1 DEF Missing
    <2> QED  BY <2>2 DEF TablesNeeded
  <1>8. \A n \in 1 .. L - 1 : ~IsPage(n, EntryAt(mem, root, v, n))
    BY <1>1, <1>2, NoPageAbove
  <1>9. /\ TreeBeside(d.mem, root, d.free, apart)
        /\ NoneEmptyBut(d.mem, root, root)
        /\ SameApart(mem, d.mem, apart)
        /\ d.status = (IF EntryAt(mem, root, v, L).present THEN PAGING_ERROR ELSE PAGING_OK)
        /\ IF EntryAt(mem, root, v, L).present THEN SamePages(mem, d.mem, root)
           ELSE /\ SamePagesBut(mem, d.mem, root, v, L)
                /\ EntryAt(d.mem, root, v, L) = e
    BY <1>1, <1>2, <1>5, <1>6, <1>p, <1>7, <1>8, PageMapped DEF SpaceInv
  <1>10. SpaceInv(apart)'  BY <1>4, <1>9 DEF SpaceInv
  <1>11. /\ PageEntry(mem, root, page) = EntryAt(mem, root, v, L)
         /\ PageEntry(mem', root, page) = EntryAt(d.mem, root, v, L)
    BY <1>1, <1>2, <1>4, PageEntryIs
  <1>12. CASE EntryAt(mem, root, v, L).present
    <2>1. KeepsAll
      BY <1>4, <1>9, <1>12, KeptFacts DEF KeepsAll, PAGING_ERROR, PAGING_OK
    <2> QED  BY <1>4, <1>9, <1>10, <2>1
  <1>13. CASE ~EntryAt(mem, root, v, L).present
    <2>1. Kept(mem, mem', root, Pages \ {page})  BY <1>1, <1>2, <1>4, <1>9, <1>13, KeptFacts
    <2>2. MapsOne(page, phys)
      BY <1>1, <1>4, <1>9, <1>11, <1>13, <1>e, <2>1 DEF MapsOne
    <2> QED  BY <1>4, <1>9, <1>10, <2>2
  <1> QED  BY <1>12, <1>13

\* Unmapping unmaps the one page or, where it is not mapped, none.
LEMMA CarefulUnmapStep ==
    ASSUME NEW apart, SpaceInv(apart), NEW page \in Pages,
           \A q \in MappedPages : ~Inside(page, q) /\ ~Inside(q, page),
           UnmapPage(page)
    PROVE  /\ SpaceInv(apart)' /\ root' = root /\ SameApart(mem, mem', apart)
           /\ UnmapsOne(page) \/ KeepsAll
  <1>1. PICK L : L = Len(page)  OBVIOUS
  <1>2. PICK v \in Addresses : Prefix(v, L) = page  BY <1>1, PageFacts
  <1>3. PICK d : d = Unmapped(State, root, page)  OBVIOUS
  <1>4. /\ mem' = d.mem /\ free' = d.free /\ status' = d.status /\ root' = root
        /\ tlb' = IF d.status = PAGING_OK THEN InvalidateTlb(page) ELSE tlb
    BY <1>3 DEF UnmapPage
  <1>5. \A n \in 1 .. L - 1 : ~IsPage(n, EntryAt(mem, root, v, n))
    BY <1>1, <1>2, NoPageAbove
  <1>6. L # 4 => TableAt(mem, root, v, L) = None
    BY <1>1, <1>2, NoTableThere
  <1>7. /\ TreeBeside(d.mem, root, d.free, apart)
        /\ NoneEmptyBut(d.mem, root, root)
        /\ SameApart(mem, d.mem, apart)
        /\ \/ /\ d.status = PAGING_OK
              /\ SamePagesBut(mem, d.mem, root, v, L)
              /\ ~IsPage(L, EntryAt(d.mem, root, v, L))
           \/ /\ d.status = PAGING_ERROR
              /\ d.mem = mem
              /\ ~IsPage(L, EntryAt(mem, root, v, L))
    BY <1>1, <1>2, <1>3, <1>5, <1>6, PageUnmapped DEF SpaceInv, State
  <1>8. SpaceInv(apart)'  BY <1>4, <1>7 DEF SpaceInv
  <1>9. CASE /\ d.status = PAGING_OK
             /\ SamePagesBut(mem, d.mem, root, v, L)
             /\ ~IsPage(L, EntryAt(d.mem, root, v, L))
    <2>1. ~PageMappedIn(mem', root, page)
      BY <1>1, <1>2, <1>4, <1>9, PageEntryIs DEF PageMappedIn
    <2>2. Kept(mem, mem', root, Pages \ {page})  BY <1>1, <1>2, <1>4, <1>9, KeptFacts
    <2>3. UnmapsOne(page)  BY <1>4, <1>9, <2>1, <2>2 DEF UnmapsOne
    <2> QED  BY <1>4, <1>7, <1>8, <2>3
  <1>10. CASE d.status = PAGING_ERROR /\ d.mem = mem
    <2>1. KeepsAll  BY <1>4, <1>10 DEF KeepsAll, Kept, PAGING_ERROR, PAGING_OK
    <2> QED  BY <1>4, <1>7, <1>8, <2>1
  <1> QED  BY <1>7, <1>9, <1>10

\* What every step does.
LEMMA StepFacts ==
    ASSUME TablesInv, [Next]_vars
    PROVE  /\ TablesInv' /\ root' = root /\ SameApart(mem, mem', {})
           /\ \/ \E page \in Pages, phys \in DataFrames :
                   MapsOne(page, phys) /\ \A q \in MappedPages : ~Inside(page, q)
              \/ \E page \in Pages : UnmapsOne(page)
              \/ KeepsAll
              \/ TlbFill /\ mem' = mem
  <1>1. CASE CarefulMap
    <2>1. PICK page \in Pages, phys \in DataFrames :
            /\ \A q \in MappedPages : ~Inside(page, q)
            /\ TablesNeeded(page) <= Cardinality(free)
            /\ MapPage(page, phys, Len(page) < 4)
      BY <1>1 DEF CarefulMap
    <2> QED  BY <2>1, NothingApart, CarefulMapStep
  <1>2. CASE CarefulUnmap
    <2>1. PICK page \in Pages :
            /\ \A q \in MappedPages : ~Inside(page, q) /\ ~Inside(q, page)
            /\ UnmapPage(page)
      BY <1>2 DEF CarefulUnmap
    <2> QED  BY <2>1, NothingApart, CarefulUnmapStep
  <1>3. CASE TlbFill
    <2>1. UNCHANGED <<mem, free, root, status>>  BY <1>3 DEF TlbFill
    <2> QED  BY <1>3, <2>1 DEF TablesInv, SameApart
  <1>4. CASE UNCHANGED vars
    BY <1>4 DEF vars, TablesInv, SameApart, KeepsAll, Kept
  <1> QED  BY <1>1, <1>2, <1>3, <1>4 DEF Next

\* A mapped page is mapped to a frame callers map.
LEMMA MappedToData ==
    ASSUME TablesInv, NEW page \in MappedPages
    PROVE  PageEntry(mem, root, page).base \in DataFrames
  <1>1. page \in Pages /\ IsPage(Len(page), PageEntry(mem, root, page)) /\ Len(page) \in 1 .. 4
    BY PageFacts DEF MappedPages
  <1>2. PICK v \in Addresses : Prefix(v, Len(page)) = page  BY <1>1, PageFacts
  <1>3. PageEntry(mem, root, page) = EntryAt(mem, root, v, Len(page))  BY <1>1, <1>2, PageEntryIs
  <1> QED  BY <1>1, <1>3 DEF TablesInv, Tree, PagesAreCallers

\* The TLB stays coherent, because a page that changes is dropped from it.
LEMMA TlbInvStep ==
    ASSUME TablesInv, TlbInv, [Next]_vars
    PROVE  TlbInv'
  <1>1. \A page \in Pages : IsPrefix(page, AddressOf(page))
    <2> TAKE page \in Pages
    <2>1. Len(page) \in 2 .. 4 /\ page \in [1 .. Len(page) -> Index]  BY PageFacts
    <2>2. PICK a \in 2 .. 4 : a = Len(page)  BY <2>1
    <2>3. page \in [1 .. a -> Index] /\ AddressOf(page) \in [1 .. 4 -> Index]
      BY <2>1, <2>2, IndexAssumption DEF AddressOf
    <2>4. \A n \in 1 .. a : page[n] = AddressOf(page)[n]  BY <2>2 DEF AddressOf
    <2>5. a \in Nat /\ a <= 4  BY <2>2
    <2> QED  BY <2>3, <2>4, <2>5, PrefixIs
  <1>2. root' = root  BY StepFacts
  <1>3. ASSUME NEW t \in tlb, PageEntry(mem', root, t.page) = PageEntry(mem, root, t.page)
        PROVE  IsPage(Len(t.page), PageEntry(mem', root, t.page))
                 /\ PageEntry(mem', root, t.page).base = t.phys
    BY <1>3 DEF TlbInv, TlbCoherent
  <1>4. \A t \in tlb : t.page \in Pages /\ PageMappedIn(mem, root, t.page)
    BY DEF TlbInv, TlbCoherent, PageMappedIn
  <1>5. ASSUME NEW page \in Pages, Kept(mem, mem', root, Pages \ {page}),
               tlb' = InvalidateTlb(page)
        PROVE  TlbInv'
    <2>1. \A t \in tlb' : t \in tlb /\ t.page # page
      BY <1>1, <1>5 DEF InvalidateTlb
    <2>2. \A t \in tlb' : PageEntry(mem', root, t.page) = PageEntry(mem, root, t.page)
      BY <1>4, <1>5, <2>1 DEF Kept
    <2> QED  BY <1>2, <1>3, <2>1, <2>2 DEF TlbInv, TlbCoherent
  <1>6. CASE KeepsAll
    <2>1. \A t \in tlb : PageEntry(mem', root, t.page) = PageEntry(mem, root, t.page)
      BY <1>4, <1>6 DEF KeepsAll, Kept
    <2> QED  BY <1>2, <1>3, <1>6, <2>1 DEF KeepsAll, TlbInv, TlbCoherent
  <1>7. CASE TlbFill /\ mem' = mem
    <2>1. PICK page \in Pages :
            /\ IsPage(Len(page), PageEntry(mem, root, page))
            /\ tlb' = tlb \union {[page |-> page, phys |-> PageEntry(mem, root, page).base]}
      BY <1>7 DEF TlbFill
    <2>2. PageEntry(mem, root, page).base \in DataFrames
      BY <2>1, MappedToData DEF MappedPages
    <2> QED  BY <1>2, <1>7, <2>1, <2>2 DEF TlbInv, TlbCoherent
  <1> QED  BY <1>5, <1>6, <1>7, StepFacts DEF MapsOne, UnmapsOne

\* The tables are a tree and the TLB is coherent in every reachable state.
THEOREM Invariant == Spec => [](TablesInv /\ TlbInv)
  <1>1. TablesInv /\ TlbInv /\ [Next]_vars => TablesInv' /\ TlbInv'
    BY StepFacts, TlbInvStep
  <1> QED  BY <1>1, TablesInvInit, PTL DEF Spec

-----------------------------------------------------------------------------
(* The properties the runs check.                                          *)

\* No table serves two places of the address space: what paging_map_page and
\* paging_unmap_page write for one page never changes the translation of another.
THEOREM TablesAlwaysTree == Spec => []TablesFormTree
  <1>1. TablesInv => TablesFormTree
    BY DEF TablesInv, Tree, OnePlaceEach, Agree, TablesFormTree
  <1> QED  BY <1>1, Invariant, PTL

\* Every frame paging.c took from the PMM is a table in use, and no table it
\* made is left empty by paging_unmap_page.
THEOREM TablesAlwaysAccounted == Spec => []TablesAccounted
  <1>1. ASSUME TablesInv PROVE TablesOf(root) = TableFrames \ free
    <2>1. TablesOf(root) \subseteq TableFrames \ free
      BY <1>1 DEF TablesInv, Tree, TablesInUse, TablesOf
    <2>2. ASSUME NEW f \in TableFrames \ free PROVE f \in TablesOf(root)
      <3>1. PICK v \in Addresses, n \in 0 .. 3 : TableAt(mem, root, v, n) = f
        BY <1>1 DEF TablesInv, Tree, NoneLost
      <3>2. f # None  BY FrameFacts
      <3> QED  BY <3>1, <3>2 DEF TablesOf
    <2> QED  BY <2>1, <2>2
  <1>2. ASSUME TablesInv, NEW table \in TablesOf(root) \ {root}
        PROVE  \E i \in Index : mem[table][i].present
    <2>1. PICK v \in Addresses, n \in 0 .. 3 : table = TableAt(mem, root, v, n) /\ table # None
      BY DEF TablesOf
    <2>2. n \in 1 .. 3
      <3>1. n = 0 \/ n \in 1 .. 3  OBVIOUS
      <3> QED  BY <2>1, <3>1, TableStep
    <2> QED  BY <1>2, <2>1, <2>2 DEF TablesInv, NoneEmptyBut
  <1>3. TablesInv => TablesAccounted  BY <1>1, <1>2 DEF TablesAccounted
  <1> QED  BY <1>3, Invariant, PTL

\* After paging_map_page and paging_unmap_page have dropped the page they changed,
\* the processor holds no translation that the tables do not.
THEOREM TlbAlwaysCoherent == Spec => []TlbCoherent
  <1>1. TlbInv => TlbCoherent  BY DEF TlbInv
  <1> QED  BY <1>1, Invariant, PTL

\* paging_resolve_virtual_address finds the frame of the page that contains the
\* address, whichever size the page has.
THEOREM ResolveAlwaysAgrees == Spec => []ResolveAgrees
  <1>1. ASSUME TablesInv, NEW page \in MappedPages, NEW virt \in Addresses, IsPrefix(page, virt)
        PROVE  Resolve(mem, root, virt) = PageEntry(mem, root, page).base
    <2>1. page \in Pages /\ IsPage(Len(page), PageEntry(mem, root, page))  BY DEF MappedPages
    <2>2. Len(page) \in 2 .. 4 /\ Len(page) \in 1 .. 4  BY <2>1, PageFacts
    <2>3. PageEntry(mem, root, page) = EntryAt(mem, root, virt, Len(page))
      BY <1>1, <2>1, AddressIn, PageEntryIs
    <2>4. ASSUME NEW j \in 1 .. 4, NEW k \in 1 .. 4, j < k, IsPage(j, EntryAt(mem, root, virt, j))
          PROVE  ~IsPage(k, EntryAt(mem, root, virt, k))
      <3>1. j \in 1 .. 3 /\ j \in 0 .. 3 /\ k \in j + 1 .. 4  BY <2>4
      <3>2. TableAt(mem, root, virt, j) = None  BY <2>4, <3>1, TableStep, BelowFacts
      <3>3. EntryAt(mem, root, virt, k) = Absent  BY <3>1, <3>2, NothingBelow
      <3> QED  BY <3>3, BelowFacts
    <2>5. CASE Len(page) = 2
      <3>1. 2 < 3 /\ 2 < 4  OBVIOUS
      <3> QED  BY <2>1, <2>3, <2>4, <2>5, <3>1 DEF Resolve
    <2>6. CASE Len(page) = 3
      <3>1. 2 < 3 /\ 3 < 4  OBVIOUS
      <3> QED  BY <2>1, <2>3, <2>4, <2>6, <3>1 DEF Resolve
    <2>7. CASE Len(page) = 4
      <3>1. 2 < 4 /\ 3 < 4  OBVIOUS
      <3> QED  BY <2>1, <2>3, <2>4, <2>7, <3>1 DEF Resolve
    <2> QED  BY <2>2, <2>5, <2>6, <2>7
  <1>2. TablesInv => ResolveAgrees  BY <1>1 DEF ResolveAgrees
  <1> QED  BY <1>2, Invariant, PTL

\* paging.c writes to tables only, never to a frame that is mapped as data.
THEOREM DataNeverTouched == Spec => DataUntouched
  <1>1. TablesInv /\ [Next]_vars => [\A f \in DataFrames : mem'[f] = mem[f]]_vars
    <2> SUFFICES ASSUME TablesInv, [Next]_vars PROVE \A f \in DataFrames : mem'[f] = mem[f]
      OBVIOUS
    <2> QED  BY StepFacts, FrameFacts DEF SameApart
  <1> QED  BY <1>1, Invariant, PTL DEF Spec, DataUntouched

-----------------------------------------------------------------------------
(* The refinement of AddressSpace.                                         *)

\* The abstract variable of AddressSpace.
Mapping == [page \in MappedPages |-> PageEntry(mem, root, page).base]

\* At first nothing is mapped.
LEMMA RefinesInit == Init => Space!Init
  <1> SUFFICES ASSUME Init PROVE MappedPages = {}  BY DEF Space!Init
  <1>1. TablesInv  BY TablesInvInit
  <1>2. mem[root] = EmptyTable /\ root # None
    BY FramesAssumption, FrameFacts DEF Init, PmmAlloc
  <1>3. ASSUME NEW page \in MappedPages PROVE FALSE
    <2>1. page \in Pages /\ IsPage(Len(page), PageEntry(mem, root, page))  BY DEF MappedPages
    <2>2. Len(page) \in 2 .. 4  BY <2>1, PageFacts
    <2>3. PICK v \in Addresses : Prefix(v, Len(page)) = page  BY <2>1, PageFacts
    <2>4. EntryAt(mem, root, v, 1) = Absent
      <3>1. v[1] \in Index /\ 1 - 1 = 0  BY DEF Addresses
      <3>2. TableAt(mem, root, v, 0) = root  BY TableStep
      <3> QED  BY <1>2, <3>1, <3>2, TableStep DEF EntryIn, EmptyTable
    <2>5. TableAt(mem, root, v, 1) = None  BY <2>4, TableStep, BelowFacts
    <2>6. EntryAt(mem, root, v, Len(page)) = Absent
      <3>1. 1 \in 0 .. 3 /\ Len(page) \in 1 + 1 .. 4  BY <2>2
      <3> QED  BY <2>5, <3>1, NothingBelow
    <2> QED  BY <2>1, <2>3, <2>6, PageEntryIs, EntryFacts DEF IsPage
  <1> QED  BY <1>3

\* The page that is mapped overlaps no mapped page: one it lies inside is ruled out by
\* the caller, one that lies inside it by the absent entry.
LEMMA NoOverlap ==
    ASSUME TablesInv, NEW page \in Pages, \A q \in MappedPages : ~Inside(page, q),
           ~PageEntry(mem, root, page).present, NEW q \in MappedPages
    PROVE  ~IsPrefix(page, q) /\ ~IsPrefix(q, page)
  <1>1. q \in Pages /\ IsPage(Len(q), PageEntry(mem, root, q))  BY DEF MappedPages
  <1>2. q # page  BY <1>1 DEF IsPage
  <1>3. ~IsPrefix(q, page)  BY <1>2 DEF Inside, IsStrictPrefix
  <1>4. ASSUME IsPrefix(page, q) PROVE FALSE
    <2>a. PICK a \in 2 .. 4 : a = Len(page) /\ page \in [1 .. a -> Index]  BY PageFacts
    <2>b. PICK b \in 2 .. 4 : b = Len(q) /\ q \in [1 .. b -> Index]  BY <1>1, PageFacts
    <2>1. a <= b /\ \A n \in 1 .. a : page[n] = q[n]
      <3>1. a \in Nat /\ b \in Nat  OBVIOUS
      <3> QED  BY <1>4, <2>a, <2>b, <3>1, PrefixIs
    <2>2. PICK w \in Addresses : Prefix(w, b) = q  BY <1>1, <2>b, PageFacts
    <2>3. Prefix(w, a) = page
      <3>1. \A n \in 1 .. a : w[n] = page[n]
        <4>1. \A n \in 1 .. b : w[n] = q[n]  BY <2>2 DEF Prefix
        <4>2. \A n \in 1 .. a : n \in 1 .. b  BY <2>1
        <4> QED  BY <2>1, <4>1, <4>2
      <3>2. page = [n \in 1 .. a |-> page[n]]  BY <2>a
      <3> QED  BY <3>1, <3>2 DEF Prefix
    <2>4. a # b  BY <1>2, <2>2, <2>3
    <2>5. PageEntry(mem, root, page) = EntryAt(mem, root, w, a)  BY <2>3, <2>a, PageEntryIs
    <2>6. PageEntry(mem, root, q) = EntryAt(mem, root, w, b)  BY <1>1, <2>2, <2>b, PageEntryIs
    <2>7. a \in 1 .. 3 /\ a \in 1 .. 4 /\ a \in 0 .. 3 /\ b \in a + 1 .. 4 /\ b \in 1 .. 4
      BY <2>1, <2>4
    <2>8. TableAt(mem, root, w, a) = None
      <3>1. EntryAt(mem, root, w, a) = Absent
        BY <2>5, <2>7, TreeFacts, EntryFacts DEF TablesInv
      <3> QED  BY <2>7, <3>1, TableStep, BelowFacts
    <2>9. EntryAt(mem, root, w, b) = Absent  BY <2>7, <2>8, NothingBelow
    <2> QED  BY <1>1, <2>6, <2>9, <2>b, EntryFacts DEF IsPage
  <1> QED  BY <1>3, <1>4

\* Every step changes the one page the caller names, or none.
LEMMA RefinesNext ==
    ASSUME TablesInv, [Next]_vars
    PROVE  [Space!Next]_(Space!vars)
  <1>1. root' = root /\ TablesInv'  BY StepFacts
  <1>2. /\ MappedPages = {page \in Pages : PageMappedIn(mem, root, page)}
        /\ MappedPages' = {page \in Pages : PageMappedIn(mem', root, page)}
    BY <1>1 DEF MappedPages, PageMappedIn
  <1>3. Mapping' = [page \in MappedPages' |-> PageEntry(mem', root, page).base]
    BY <1>1 DEF Mapping
  <1>4. ASSUME NEW page \in Pages, NEW phys \in DataFrames, MapsOne(page, phys),
               \A q \in MappedPages : ~Inside(page, q)
        PROVE  Space!MapPage(page, phys)
    <2>1. \A q \in MappedPages : ~IsPrefix(page, q) /\ ~IsPrefix(q, page)
      BY <1>4, NoOverlap DEF MapsOne
    <2>2. PageMappedIn(mem', root, page) /\ PageEntry(mem', root, page).base = phys
      <3>1. Len(page) \in 2 .. 4  BY PageFacts
      <3>2. PageEntry(mem', root, page) = EntryFor(phys, Len(page) < 4)  BY <1>4 DEF MapsOne
      <3>3. IsPage(Len(page), EntryFor(phys, Len(page) < 4))  BY <3>1, LeafIsPage
      <3> QED  BY <3>2, <3>3, EntryFacts DEF PageMappedIn
    <2>3. \A q \in Pages \ {page} :
            /\ PageMappedIn(mem', root, q) <=> PageMappedIn(mem, root, q)
            /\ PageMappedIn(mem, root, q) => PageEntry(mem', root, q) = PageEntry(mem, root, q)
      BY <1>4 DEF MapsOne, Kept, PageMappedIn
    <2>4. MappedPages' = MappedPages \union {page}  BY <1>2, <2>2, <2>3
    <2>5. Mapping' = [q \in MappedPages \union {page} |-> IF q = page THEN phys ELSE Mapping[q]]
      <3>1. \A q \in MappedPages \union {page} :
              PageEntry(mem', root, q).base = IF q = page THEN phys ELSE Mapping[q]
        BY <1>2, <2>2, <2>3 DEF Mapping
      <3> QED  BY <1>3, <2>4, <3>1
    <2>6. DOMAIN Mapping = MappedPages  BY DEF Mapping
    <2>7. \A q \in DOMAIN Mapping : ~Space!Overlap(page, q)
      BY <2>1, <2>6 DEF Space!Overlap, Space!IsPrefix, IsPrefix
    <2>8. Mapping' = [q \in DOMAIN Mapping \union {page} |-> IF q = page THEN phys ELSE Mapping[q]]
      BY <2>5, <2>6
    <2> QED  BY <2>7, <2>8 DEF Space!MapPage, Mapping
  <1>5. ASSUME NEW q \in Pages, PageEntry(mem', root, q) = PageEntry(mem, root, q)
        PROVE  PageMappedIn(mem', root, q) <=> PageMappedIn(mem, root, q)
    BY <1>5 DEF PageMappedIn
  <1>6. ASSUME Kept(mem, mem', root, Pages) PROVE Mapping' = Mapping
    <2>1. \A q \in Pages :
            /\ PageMappedIn(mem', root, q) <=> PageMappedIn(mem, root, q)
            /\ PageMappedIn(mem, root, q) => PageEntry(mem', root, q) = PageEntry(mem, root, q)
      BY <1>6 DEF Kept, PageMappedIn
    <2>2. MappedPages' = MappedPages  BY <1>2, <2>1
    <2>3. \A q \in MappedPages : PageEntry(mem', root, q).base = PageEntry(mem, root, q).base
      BY <1>2, <2>1
    <2> QED  BY <1>3, <2>2, <2>3 DEF Mapping
  <1>7. ASSUME NEW page \in Pages, UnmapsOne(page)
        PROVE  Space!UnmapPage(page) \/ Mapping' = Mapping
    <2>1. \A q \in Pages \ {page} :
            /\ PageMappedIn(mem', root, q) <=> PageMappedIn(mem, root, q)
            /\ PageMappedIn(mem, root, q) => PageEntry(mem', root, q) = PageEntry(mem, root, q)
      BY <1>7 DEF UnmapsOne, Kept, PageMappedIn
    <2>2. MappedPages' = MappedPages \ {page}  BY <1>2, <1>7, <2>1 DEF UnmapsOne
    <2>3. \A q \in MappedPages \ {page} : PageEntry(mem', root, q).base = Mapping[q]
      BY <1>2, <2>1 DEF Mapping
    <2>4. Mapping' = [q \in MappedPages \ {page} |-> Mapping[q]]  BY <1>3, <2>2, <2>3
    <2>5. DOMAIN Mapping = MappedPages  BY DEF Mapping
    <2>6. CASE page \in MappedPages
      BY <2>4, <2>5, <2>6 DEF Space!UnmapPage, Space!Restrict, Mapping
    <2>7. CASE page \notin MappedPages
      <3>1. MappedPages \ {page} = MappedPages  BY <2>7
      <3> QED  BY <2>4, <3>1 DEF Mapping
    <2> QED  BY <2>6, <2>7
  <1>8. ASSUME TlbFill, mem' = mem PROVE Mapping' = Mapping
    <2>1. Kept(mem, mem', root, Pages)  BY <1>8 DEF Kept
    <2> QED  BY <1>6, <2>1
  <1>9. \/ \E page \in Pages : \/ \E phys \in DataFrames : Space!MapPage(page, phys)
                               \/ Space!UnmapPage(page)
        \/ Mapping' = Mapping
    BY <1>4, <1>6, <1>7, <1>8, StepFacts DEF KeepsAll
  <1> QED  BY <1>9 DEF Space!Next, Space!vars, Mapping

\* Paging implements AddressSpace: with careful callers paging_map_page and
\* paging_unmap_page add and remove the page they are given and nothing else.
THEOREM PagingImplementsAddressSpace == Spec => ImplementsAddressSpace
  <1>1. TablesInv /\ [Next]_vars => [Space!Next]_(Space!vars)  BY RefinesNext
  <1> QED  BY <1>1, RefinesInit, Invariant, PTL DEF Spec, ImplementsAddressSpace, Space!Spec

-----------------------------------------------------------------------------
(* The order of the walk that clones an address space.                     *)

\* No page of a set lies inside another.
Separate(pages) == \A p, q \in pages : ~Inside(p, q)

\* The walk meets two pages in one order only, and any three as if in a line.
LEMMA WalkOrder ==
    ASSUME NEW p \in Paths, NEW q \in Paths
    PROVE  /\ ~WalkedBefore(p, p)
           /\ WalkedBefore(p, q) => ~WalkedBefore(q, p)
           /\ \A t \in Paths : WalkedBefore(p, q) /\ WalkedBefore(q, t) => WalkedBefore(p, t)
  <1>1. \A x \in Paths : Len(x) \in 2 .. 4 /\ \A n \in 1 .. Len(x) : x[n] \in Nat
    <2> TAKE x \in Paths
    <2>1. PICK L \in 2 .. 4 : x \in [1 .. L -> Index]  BY DEF Paths
    <2>2. Len(x) = L  BY <2>1
    <2> QED  BY <2>1, <2>2, OrderAssumption
  <1>2. ASSUME NEW x \in Paths, NEW y \in Paths, WalkedBefore(x, y)
        PROVE  \E n \in 1 .. 4 : /\ n <= Len(x) /\ n <= Len(y)
                                 /\ \A k \in 1 .. n - 1 : x[k] = y[k]
                                 /\ x[n] < y[n] /\ x[n] \in Nat /\ y[n] \in Nat
    BY <1>1, <1>2 DEF WalkedBefore
  <1>3. ASSUME NEW x \in Paths, NEW y \in Paths, NEW z \in Paths,
               WalkedBefore(x, y), WalkedBefore(y, z)
        PROVE  WalkedBefore(x, z)
    <2>1. PICK i \in 1 .. 4 : /\ i <= Len(x) /\ i <= Len(y)
                              /\ \A k \in 1 .. i - 1 : x[k] = y[k]
                              /\ x[i] < y[i] /\ x[i] \in Nat /\ y[i] \in Nat
      BY <1>2, <1>3
    <2>2. PICK j \in 1 .. 4 : /\ j <= Len(y) /\ j <= Len(z)
                              /\ \A k \in 1 .. j - 1 : y[k] = z[k]
                              /\ y[j] < z[j] /\ y[j] \in Nat /\ z[j] \in Nat
      BY <1>2, <1>3
    <2>3. Len(x) \in 2 .. 4 /\ Len(y) \in 2 .. 4 /\ Len(z) \in 2 .. 4  BY <1>1
    <2>4. CASE i < j
      <3>1. i \in 1 .. j - 1 /\ \A k \in 1 .. i - 1 : k \in 1 .. j - 1  BY <2>4
      <3>2. y[i] = z[i] /\ \A k \in 1 .. i - 1 : x[k] = z[k]  BY <2>1, <2>2, <3>1
      <3>3. x[i] < z[i] /\ i <= Len(x) /\ i <= Len(z)  BY <2>1, <2>2, <2>3, <2>4, <3>2
      <3> QED  BY <3>2, <3>3 DEF WalkedBefore
    <2>5. CASE j < i
      <3>1. j \in 1 .. i - 1 /\ \A k \in 1 .. j - 1 : k \in 1 .. i - 1  BY <2>5
      <3>2. x[j] = y[j] /\ \A k \in 1 .. j - 1 : x[k] = z[k]  BY <2>1, <2>2, <3>1
      <3>3. x[j] < z[j] /\ j <= Len(x) /\ j <= Len(z)  BY <2>1, <2>2, <2>3, <2>5, <3>2
      <3> QED  BY <3>2, <3>3 DEF WalkedBefore
    <2>6. CASE i = j
      <3>1. \A k \in 1 .. i - 1 : x[k] = z[k]  BY <2>1, <2>2, <2>6
      <3>2. x[i] < z[i] /\ i <= Len(x) /\ i <= Len(z)
        <4>1. x[i] < y[i] /\ y[i] < z[i] /\ x[i] \in Nat /\ y[i] \in Nat /\ z[i] \in Nat
          BY <2>1, <2>2, <2>6
        <4> QED  BY <2>1, <2>2, <2>6, <4>1
      <3> QED  BY <3>1, <3>2 DEF WalkedBefore
    <2> QED  BY <2>4, <2>5, <2>6
  <1>4. ASSUME NEW x \in Paths, WalkedBefore(x, x) PROVE FALSE
    <2>1. PICK n \in 1 .. 4 : x[n] < x[n] /\ x[n] \in Nat  BY <1>2, <1>4
    <2> QED  BY <2>1
  <1> QED  BY <1>3, <1>4

\* Of two pages neither of which lies inside the other, one comes first.
LEMMA WalkTotal ==
    ASSUME NEW p \in Paths, NEW q \in Paths, p # q, ~Inside(p, q), ~Inside(q, p)
    PROVE  WalkedBefore(p, q) \/ WalkedBefore(q, p)
  <1>1. PICK a \in 2 .. 4 : a = Len(p) /\ p \in [1 .. a -> Index]
    <2>1. PICK L \in 2 .. 4 : p \in [1 .. L -> Index]  BY DEF Paths
    <2>2. Len(p) = L  BY <2>1
    <2> QED  BY <2>1, <2>2
  <1>2. PICK b \in 2 .. 4 : b = Len(q) /\ q \in [1 .. b -> Index]
    <2>1. PICK L \in 2 .. 4 : q \in [1 .. L -> Index]  BY DEF Paths
    <2>2. Len(q) = L  BY <2>1
    <2> QED  BY <2>1, <2>2
  <1>3. \E n \in 1 .. 4 : n <= a /\ n <= b /\ p[n] # q[n]
    <2> SUFFICES ASSUME \A n \in 1 .. 4 : n <= a /\ n <= b => p[n] = q[n] PROVE FALSE
      OBVIOUS
    <2>1. a \in Nat /\ b \in Nat  OBVIOUS
    <2>2. CASE a <= b
      <3>1. \A n \in 1 .. a : n \in 1 .. 4 /\ n <= a /\ n <= b  BY <2>2
      <3>2. IsPrefix(p, q)  BY <1>1, <1>2, <2>1, <2>2, <3>1, PrefixIs
      <3> QED  BY <3>2 DEF Inside, IsStrictPrefix
    <2>3. CASE b <= a
      <3>1. \A n \in 1 .. b : n \in 1 .. 4 /\ n <= a /\ n <= b  BY <2>3
      <3>2. IsPrefix(q, p)  BY <1>1, <1>2, <2>1, <2>3, <3>1, PrefixIs
      <3> QED  BY <3>2 DEF Inside, IsStrictPrefix
    <2> QED  BY <2>1, <2>2, <2>3
  <1>4. PICK n \in 1 .. 4 : /\ n <= a /\ n <= b /\ p[n] # q[n]
                            /\ \A k \in 1 .. n - 1 : p[k] = q[k]
    <2>1. CASE p[1] # q[1]
      <3>1. 1 \in 1 .. 4 /\ \A k \in 1 .. 1 - 1 : FALSE  OBVIOUS
      <3> QED  BY <2>1, <3>1
    <2>2. CASE p[1] = q[1] /\ p[2] # q[2]
      <3>1. 2 \in 1 .. 4 /\ \A k \in 1 .. 2 - 1 : k = 1  OBVIOUS
      <3> QED  BY <2>2, <3>1
    <2>3. CASE p[1] = q[1] /\ p[2] = q[2] /\ 3 <= a /\ 3 <= b /\ p[3] # q[3]
      <3>1. 3 \in 1 .. 4 /\ \A k \in 1 .. 3 - 1 : k = 1 \/ k = 2  OBVIOUS
      <3> QED  BY <2>3, <3>1
    <2>4. CASE p[1] = q[1] /\ p[2] = q[2] /\ ~(3 <= a /\ 3 <= b /\ p[3] # q[3])
      <3>1. PICK n \in 1 .. 4 : n <= a /\ n <= b /\ p[n] # q[n]  BY <1>3
      <3>2. n # 1 /\ n # 2 /\ n # 3  BY <2>4, <3>1
      <3>3. n = 4 /\ 3 <= a /\ 3 <= b  BY <3>1, <3>2
      <3>4. p[3] = q[3] /\ \A k \in 1 .. 4 - 1 : k = 1 \/ k = 2 \/ k = 3  BY <2>4, <3>3
      <3> QED  BY <2>4, <3>1, <3>3, <3>4
    <2> QED  BY <2>1, <2>2, <2>3, <2>4
  <1>5. p[n] \in Nat /\ q[n] \in Nat
    <2>1. n \in 1 .. a /\ n \in 1 .. b  BY <1>4
    <2>2. p[n] \in Index /\ q[n] \in Index  BY <1>1, <1>2, <2>1
    <2> QED  BY <2>2, OrderAssumption
  <1>6. CASE p[n] < q[n]  BY <1>1, <1>2, <1>4, <1>6 DEF WalkedBefore
  <1>7. CASE q[n] < p[n]  BY <1>1, <1>2, <1>4, <1>7 DEF WalkedBefore
  <1> QED  BY <1>4, <1>5, <1>6, <1>7

\* A walk meets the pages of a set in order, and each of them.
WalkOf(walk, pages) ==
    /\ walk \in [1 .. Cardinality(pages) -> pages]
    /\ \A j, k \in DOMAIN walk : j < k => WalkedBefore(walk[j], walk[k])

\* A finite set of pages none of which lies inside another can be walked.
LEMMA WalkExists ==
    ASSUME NEW pages \in SUBSET Paths, IsFiniteSet(pages), Separate(pages)
    PROVE  \E walk : WalkOf(walk, pages)
  <1>n. PICK n \in Nat : n = Cardinality(pages)  BY FS_CardinalityType
  <1>b. PICK before : before = [p \in pages |-> {q \in pages : WalkedBefore(q, p)}]  OBVIOUS
  <1>r. PICK rank : rank = [p \in pages |-> Cardinality(before[p]) + 1]  OBVIOUS
  <1>1. ASSUME NEW p \in pages
        PROVE  /\ IsFiniteSet(before[p]) /\ Cardinality(before[p]) \in Nat
               /\ rank[p] \in 1 .. n
    <2>1. before[p] \subseteq pages /\ p \notin before[p]  BY <1>b, WalkOrder
    <2>2. /\ IsFiniteSet(before[p])
          /\ Cardinality(before[p]) <= n
          /\ n = Cardinality(before[p]) => pages = before[p]
      BY <1>n, <2>1, FS_Subset
    <2>3. Cardinality(before[p]) \in Nat  BY <2>2, FS_CardinalityType
    <2>4. n # Cardinality(before[p])  BY <2>1, <2>2
    <2>5. rank[p] = Cardinality(before[p]) + 1  BY <1>r
    <2>6. PICK c : c = Cardinality(before[p])  OBVIOUS
    <2>7. c + 1 \in 1 .. n  BY <2>2, <2>3, <2>4, <2>6
    <2> QED  BY <2>2, <2>3, <2>5, <2>6, <2>7
  <1>2. ASSUME NEW p \in pages, NEW q \in pages, WalkedBefore(p, q) PROVE rank[p] < rank[q]
    <2>1. before[p] \subseteq before[q] /\ p \in before[q] /\ p \notin before[p]
      BY <1>2, <1>b, WalkOrder
    <2>2. /\ Cardinality(before[p]) <= Cardinality(before[q])
          /\ Cardinality(before[q]) = Cardinality(before[p]) => before[q] = before[p]
      BY <1>1, <2>1, FS_Subset
    <2>3. Cardinality(before[q]) # Cardinality(before[p])  BY <2>1, <2>2
    <2>4. rank[p] = Cardinality(before[p]) + 1 /\ rank[q] = Cardinality(before[q]) + 1
      BY <1>r
    <2>5. PICK c, d : c = Cardinality(before[p]) /\ d = Cardinality(before[q])  OBVIOUS
    <2>6. c \in Nat /\ d \in Nat  BY <1>1, <2>5
    <2>7. c + 1 < d + 1  BY <2>2, <2>3, <2>5, <2>6
    <2> QED  BY <2>4, <2>5, <2>7
  <1>3. ASSUME NEW p \in pages, NEW q \in pages, p # q
        PROVE  WalkedBefore(p, q) \/ WalkedBefore(q, p)
    BY <1>3, WalkTotal DEF Separate
  <1>4. \A p, q \in pages : rank[p] \in Nat /\ (rank[p] = rank[q] => p = q)
    BY <1>1, <1>2, <1>3
  <1>5. rank \in Injection(pages, 1 .. n)
    <2>1. rank \in [pages -> 1 .. n]  BY <1>1, <1>r
    <2> QED  BY <2>1, <1>4 DEF Injection, IsInjective
  <1>6. rank \in Surjection(pages, 1 .. n)
    <2>1. IsFiniteSet(1 .. n) /\ Cardinality(1 .. n) = n
      <3>1. /\ IsFiniteSet(1 .. n)
            /\ Cardinality(1 .. n) = IF 1 > n THEN 0 ELSE n - 1 + 1
        BY FS_Interval
      <3> QED  BY <3>1
    <2> QED  BY <1>5, <1>n, <2>1, FS_Injection
  <1>7. \A k \in 1 .. n : \E p \in pages : rank[p] = k  BY <1>6 DEF Surjection
  <1>8. PICK walk : walk = [k \in 1 .. n |-> CHOOSE p \in pages : rank[p] = k]  OBVIOUS
  <1>9. \A k \in 1 .. n : walk[k] \in pages /\ rank[walk[k]] = k  BY <1>7, <1>8
  <1>10. walk \in [1 .. n -> pages] /\ DOMAIN walk = 1 .. n  BY <1>8, <1>9
  <1>11. ASSUME NEW j \in 1 .. n, NEW k \in 1 .. n, j < k PROVE WalkedBefore(walk[j], walk[k])
    <2>1. walk[j] # walk[k]  BY <1>9, <1>11
    <2>2. ~WalkedBefore(walk[k], walk[j])
      <3>1. WalkedBefore(walk[k], walk[j]) => k < j  BY <1>2, <1>9
      <3> QED  BY <1>11, <3>1
    <2> QED  BY <1>3, <1>9, <2>1, <2>2
  <1> QED  BY <1>10, <1>11, <1>n DEF WalkOf

\* The walk of such a set visits each of its pages once.
LEMMA WalkFacts ==
    ASSUME NEW pages \in SUBSET Paths, IsFiniteSet(pages), Separate(pages)
    PROVE  /\ Cardinality(pages) \in Nat
           /\ Walk(pages) \in [1 .. Cardinality(pages) -> pages]
           /\ Len(Walk(pages)) = Cardinality(pages)
           /\ \A j, k \in 1 .. Cardinality(pages) : Walk(pages)[j] = Walk(pages)[k] => j = k
           /\ \A p \in pages : \E k \in 1 .. Cardinality(pages) : Walk(pages)[k] = p
  <1>n. PICK n \in Nat : n = Cardinality(pages)  BY FS_CardinalityType
  <1>w. PICK walk : walk = Walk(pages)  OBVIOUS
  <1>1. WalkOf(walk, pages)  BY <1>w, WalkExists, Zenon DEF WalkOf, Walk
  <1>2. walk \in [1 .. n -> pages] /\ DOMAIN walk = 1 .. n /\ Len(walk) = n
    <2>1. walk \in [1 .. n -> pages]  BY <1>n, <1>1 DEF WalkOf
    <2> QED  BY <2>1
  <1>3. \A j, k \in 1 .. n : j < k => walk[j] # walk[k]
    <2>1. \A j, k \in 1 .. n : j < k => WalkedBefore(walk[j], walk[k])  BY <1>1, <1>2 DEF WalkOf
    <2>2. \A j \in 1 .. n : ~WalkedBefore(walk[j], walk[j])  BY <1>2, WalkOrder
    <2> QED  BY <2>1, <2>2
  <1>4. \A j, k \in 1 .. n : walk[j] = walk[k] => j = k  BY <1>3
  <1>5. walk \in Injection(1 .. n, pages)  BY <1>2, <1>4 DEF Injection, IsInjective
  <1>6. walk \in Surjection(1 .. n, pages)
    <2>1. IsFiniteSet(1 .. n) /\ Cardinality(1 .. n) = n
      <3>1. /\ IsFiniteSet(1 .. n)
            /\ Cardinality(1 .. n) = IF 1 > n THEN 0 ELSE n - 1 + 1
        BY FS_Interval
      <3> QED  BY <3>1
    <2> QED  BY <1>5, <1>n, <2>1, FS_Injection
  <1>7. \A p \in pages : \E k \in 1 .. n : walk[k] = p  BY <1>6 DEF Surjection
  <1> QED  BY <1>n, <1>w, <1>2, <1>4, <1>7

-----------------------------------------------------------------------------
(* Two memories, and a new address space.                                  *)

\* The walk depends on the tables it goes through and on nothing else in memory.
LEMMA SameWalk ==
    ASSUME NEW m, NEW m2, NEW r,
           \A w \in Addresses, n \in 0 .. 3 :
             TableAt(m, r, w, n) # None => m2[TableAt(m, r, w, n)] = m[TableAt(m, r, w, n)]
    PROVE  \A w \in Addresses :
             /\ \A n \in 0 .. 3 : TableAt(m2, r, w, n) = TableAt(m, r, w, n)
             /\ \A n \in 1 .. 4 : EntryAt(m2, r, w, n) = EntryAt(m, r, w, n)
  <1> SUFFICES ASSUME NEW w \in Addresses
               PROVE  /\ \A n \in 0 .. 3 : TableAt(m2, r, w, n) = TableAt(m, r, w, n)
                      /\ \A n \in 1 .. 4 : EntryAt(m2, r, w, n) = EntryAt(m, r, w, n)
    OBVIOUS
  <1>1. ASSUME NEW n \in 1 .. 4, TableAt(m2, r, w, n - 1) = TableAt(m, r, w, n - 1)
        PROVE  EntryAt(m2, r, w, n) = EntryAt(m, r, w, n)
    <2>1. n - 1 \in 0 .. 3  OBVIOUS
    <2> QED  BY <1>1, <2>1, TableStep DEF EntryIn
  <1>2. ASSUME NEW n \in 1 .. 3, TableAt(m2, r, w, n - 1) = TableAt(m, r, w, n - 1)
        PROVE  TableAt(m2, r, w, n) = TableAt(m, r, w, n)
    <2>1. n \in 1 .. 4  OBVIOUS
    <2> QED  BY <1>1, <1>2, <2>1, TableStep
  <1>3. \A n \in 0 .. 3 : TableAt(m2, r, w, n) = TableAt(m, r, w, n)
    <2>1. TableAt(m2, r, w, 0) = TableAt(m, r, w, 0)  BY TableStep
    <2>2. TableAt(m2, r, w, 1) = TableAt(m, r, w, 1)
      <3>1. 1 - 1 = 0  OBVIOUS
      <3> QED  BY <1>2, <2>1, <3>1
    <2>3. TableAt(m2, r, w, 2) = TableAt(m, r, w, 2)
      <3>1. 2 - 1 = 1  OBVIOUS
      <3> QED  BY <1>2, <2>2, <3>1
    <2>4. TableAt(m2, r, w, 3) = TableAt(m, r, w, 3)
      <3>1. 3 - 1 = 2  OBVIOUS
      <3> QED  BY <1>2, <2>3, <3>1
    <2>5. \A n \in 0 .. 3 : n = 0 \/ n = 1 \/ n = 2 \/ n = 3  OBVIOUS
    <2> QED  BY <2>1, <2>2, <2>3, <2>4, <2>5
  <1>4. \A n \in 1 .. 4 : n - 1 \in 0 .. 3  OBVIOUS
  <1> QED  BY <1>1, <1>3, <1>4

\* So whatever is kept true of the tables holds in both memories.
LEMMA SameTree ==
    ASSUME NEW m, NEW m2 \in Memories, NEW r, NEW fr, NEW apart,
           TreeBeside(m, r, fr, apart), NoneEmptyBut(m, r, r),
           \A f \in TableFrames \ (fr \union apart) : m2[f] = m[f]
    PROVE  TreeBeside(m2, r, fr, apart) /\ NoneEmptyBut(m2, r, r)
  <1>1. \A w \in Addresses, n \in 0 .. 3 :
          TableAt(m, r, w, n) # None => m2[TableAt(m, r, w, n)] = m[TableAt(m, r, w, n)]
    BY BesideFacts
  <1>2. \A w \in Addresses :
          /\ \A n \in 0 .. 3 : TableAt(m2, r, w, n) = TableAt(m, r, w, n)
          /\ \A n \in 1 .. 4 : EntryAt(m2, r, w, n) = EntryAt(m, r, w, n)
    BY <1>1, SameWalk
  <1>3. NoneEmptyBut(m2, r, r)
    <2> SUFFICES ASSUME NEW w \in Addresses, NEW n \in 1 .. 3, TableAt(m2, r, w, n) \notin {None, r}
                 PROVE  \E i \in Index : m2[TableAt(m2, r, w, n)][i].present
      BY DEF NoneEmptyBut
    <2>1. n \in 0 .. 3  OBVIOUS
    <2>2. TableAt(m2, r, w, n) = TableAt(m, r, w, n)  BY <1>2, <2>1
    <2>3. m2[TableAt(m, r, w, n)] = m[TableAt(m, r, w, n)]  BY <1>1, <2>1, <2>2
    <2>4. \E i \in Index : m[TableAt(m, r, w, n)][i].present  BY <2>2 DEF NoneEmptyBut
    <2> QED  BY <2>2, <2>3, <2>4
  <1>4. PICK all : all = fr \union apart  OBVIOUS
  <1>5. Tree(m, r, all)  BY <1>4 DEF TreeBeside
  <1>6. TablesInUse(m2, r, all)  BY <1>2, <1>5 DEF Tree, TablesInUse
  <1>7. OnePlaceEach(m2, r)  BY <1>2, <1>5 DEF Tree, OnePlaceEach
  <1>8. NoneLost(m2, r, all)  BY <1>2, <1>5 DEF Tree, NoneLost
  <1>9. PagesAreCallers(m2, r)  BY <1>2, <1>5 DEF Tree, PagesAreCallers
  <1>10. Tree(m2, r, all)  BY <1>5, <1>6, <1>7, <1>8, <1>9 DEF Tree
  <1> QED  BY <1>3, <1>4, <1>10 DEF TreeBeside

\* What is mapped are the pages of a set, each by the entry given for it.
MapsExactly(m, r, pages, entry) ==
    \A w \in Addresses, n \in 1 .. 4 :
      /\ IsPage(n, EntryAt(m, r, w, n)) => Prefix(w, n) \in pages
      /\ Prefix(w, n) \in pages => EntryAt(m, r, w, n) = entry[Prefix(w, n)]

\* An empty PML4 that has all the tables there are maps nothing.
LEMMA FreshTree ==
    ASSUME NEW m \in Memories, NEW r \in TableFrames, m[r] = EmptyTable,
           NEW fr, NEW apart, fr \union apart = TableFrames \ {r}, fr \cap apart = {},
           NEW entry
    PROVE  /\ TreeBeside(m, r, fr, apart) /\ NoneEmptyBut(m, r, r)
           /\ MapsExactly(m, r, {}, entry)
  <1>1. \A v \in Addresses :
          /\ TableAt(m, r, v, 0) = r
          /\ \A n \in 1 .. 3 : TableAt(m, r, v, n) = None
          /\ \A n \in 1 .. 4 : EntryAt(m, r, v, n) = Absent
    <2> TAKE v \in Addresses
    <2>1. TableAt(m, r, v, 0) = r  BY TableStep
    <2>2. EntryAt(m, r, v, 1) = Absent
      <3>1. v[1] \in Index /\ 1 - 1 = 0  BY DEF Addresses
      <3> QED  BY <2>1, <3>1, TableStep, FrameFacts DEF EntryIn, EmptyTable
    <2>3. TableAt(m, r, v, 1) = None  BY <2>2, TableStep, BelowFacts
    <2>4. 1 \in 0 .. 3 /\ 1 + 1 = 2  OBVIOUS
    <2>5. /\ \A n \in 1 .. 3 : TableAt(m, r, v, n) = None
          /\ \A n \in 2 .. 4 : EntryAt(m, r, v, n) = Absent
      BY <2>3, <2>4, NothingBelow
    <2>6. \A n \in 1 .. 4 : n = 1 \/ n \in 2 .. 4  OBVIOUS
    <2> QED  BY <2>1, <2>2, <2>5, <2>6
  <1>2. \A n \in 0 .. 3 : n = 0 \/ n \in 1 .. 3  OBVIOUS
  <1>3. PICK all : all = fr \union apart  OBVIOUS
  <1>4. all = TableFrames \ {r}  BY <1>3
  <1>5. TablesInUse(m, r, all)
    BY <1>1, <1>2, <1>4 DEF TablesInUse
  <1>6. OnePlaceEach(m, r)
    BY <1>1, <1>2 DEF OnePlaceEach, Agree
  <1>7. NoneLost(m, r, all)
    <2>1. PICK i : i \in Index  BY IndexAssumption
    <2>2. [n \in 1 .. 4 |-> i] \in Addresses /\ 0 \in 0 .. 3  BY <2>1 DEF Addresses
    <2> QED  BY <1>1, <1>4, <2>2 DEF NoneLost
  <1>8. PagesAreCallers(m, r)
    BY <1>1, BelowFacts DEF PagesAreCallers
  <1>9. NoneEmptyBut(m, r, r)
    BY <1>1 DEF NoneEmptyBut
  <1>10. MapsExactly(m, r, {}, entry)  BY <1>1, BelowFacts DEF MapsExactly
  <1>11. Tree(m, r, all)  BY <1>4, <1>5, <1>6, <1>7, <1>8 DEF Tree
  <1> QED  BY <1>3, <1>9, <1>10, <1>11 DEF TreeBeside

-----------------------------------------------------------------------------
(* How many tables an address space needs.                                 *)

\* The beginning of an address names one place.
LEMMA PlaceIs ==
    ASSUME NEW v \in Addresses, NEW w \in Addresses, NEW j \in 0 .. 4, NEW k \in 0 .. 4,
           Prefix(v, j) = Prefix(w, k)
    PROVE  j = k /\ Agree(v, w, j)
  <1>1. Prefix(v, j) \in [1 .. j -> Index] /\ Prefix(w, k) \in [1 .. k -> Index]
    BY DEF Prefix, Addresses
  <1>2. Len(Prefix(v, j)) = j /\ Len(Prefix(w, k)) = k  BY <1>1
  <1>3. j = k  BY <1>2
  <1>4. \A n \in 1 .. j : Prefix(v, j)[n] = v[n] /\ Prefix(w, k)[n] = w[n]
    BY <1>3 DEF Prefix
  <1> QED  BY <1>3, <1>4 DEF Agree

\* The places of tables are finitely many, if the pages are.
LEMMA PlacesFacts ==
    ASSUME IsFiniteSet(Pages)
    PROVE  /\ IsFiniteSet(TablesFor(Pages))
           /\ \A v : Prefix(v, 0) \in TablesFor(Pages)
           /\ \A page \in Pages : \A v \in Addresses, n \in 1 .. Len(page) - 1 :
                Prefix(v, Len(page)) = page => Prefix(v, n) \in TablesFor(Pages)
  <1>p. PICK places : places = [q \in Pages |-> {[k \in 1 .. n |-> q[k]] : n \in 1 .. Len(q) - 1}]
    OBVIOUS
  <1>s. PICK sets : sets = {places[page] : page \in Pages}  OBVIOUS
  <1>1. TablesFor(Pages) = {<<>>} \union UNION sets  BY <1>p, <1>s DEF TablesFor
  <1>2. IsFiniteSet(sets)
    <2>1. places \in Surjection(Pages, sets)  BY <1>p, <1>s DEF Surjection
    <2> QED  BY <2>1, FS_Surjection
  <1>3. \A x \in sets : IsFiniteSet(x)
    <2> SUFFICES ASSUME NEW page \in Pages PROVE IsFiniteSet(places[page])  BY <1>s
    <2>1. Len(page) - 1 \in Int  BY PageFacts
    <2>2. IsFiniteSet(1 .. Len(page) - 1)  BY <2>1, FS_Interval
    <2>3. PICK g : g = [n \in 1 .. Len(page) - 1 |-> [k \in 1 .. n |-> page[k]]]  OBVIOUS
    <2>4. g \in Surjection(1 .. Len(page) - 1, places[page])  BY <1>p, <2>3 DEF Surjection
    <2> QED  BY <2>2, <2>4, FS_Surjection
  <1>4. IsFiniteSet(TablesFor(Pages))
    <2>1. PICK U, W : U = UNION sets /\ W = {<<>>}  OBVIOUS
    <2>2. IsFiniteSet(U)  BY <1>2, <1>3, <2>1, FS_UNION
    <2>3. IsFiniteSet(W)  BY <2>1, FS_Singleton
    <2>4. IsFiniteSet(W \union U)  BY <2>2, <2>3, FS_Union
    <2> QED  BY <1>1, <2>1, <2>4
  <1>5. \A v : Prefix(v, 0) \in TablesFor(Pages)
    <2> TAKE v
    <2>1. Prefix(v, 0) = <<>>  BY DEF Prefix
    <2> QED  BY <1>1, <2>1
  <1>6. ASSUME NEW page \in Pages, NEW v \in Addresses, NEW n \in 1 .. Len(page) - 1,
               Prefix(v, Len(page)) = page
        PROVE  Prefix(v, n) \in TablesFor(Pages)
    <2>1. \A k \in 1 .. n : page[k] = v[k]
      <3>1. \A k \in 1 .. n : k \in 1 .. Len(page)  BY PageFacts
      <3> QED  BY <1>6, <3>1 DEF Prefix
    <2>2. Prefix(v, n) = [k \in 1 .. n |-> page[k]]  BY <2>1 DEF Prefix
    <2>3. Prefix(v, n) \in places[page] /\ places[page] \in sets  BY <1>p, <1>s, <2>2
    <2> QED  BY <1>1, <2>3
  <1> QED  BY <1>4, <1>5, <1>6

\* The tables in use are no more than the places callers' pages give them, without
\* those where no table is.
LEMMA TablesCounted ==
    ASSUME NEW m, NEW r, NEW fr, NEW apart, TreeBeside(m, r, fr, apart), NoneEmptyBut(m, r, r),
           IsFiniteSet(Pages),
           NEW bare, bare \subseteq TablesFor(Pages),
           \A v \in Addresses, n \in 0 .. 3 : Prefix(v, n) \in bare => TableAt(m, r, v, n) = None
    PROVE  Cardinality(TableFrames \ (fr \union apart)) <=
             Cardinality(TablesFor(Pages)) - Cardinality(bare)
  <1>u. PICK used : used = TableFrames \ (fr \union apart)  OBVIOUS
  <1>1. Tree(m, r, fr \union apart)  BY DEF TreeBeside
  <1>2. \A f \in used : \E v \in Addresses, n \in 0 .. 3 : TableAt(m, r, v, n) = f
    BY <1>1, <1>u DEF Tree, NoneLost
  <1>p. PICK place : place = [f \in used |-> CHOOSE p : \E v \in Addresses, n \in 0 .. 3 :
                                p = Prefix(v, n) /\ TableAt(m, r, v, n) = f]
    OBVIOUS
  <1>3. \A f \in used : \E v \in Addresses, n \in 0 .. 3 :
          place[f] = Prefix(v, n) /\ TableAt(m, r, v, n) = f
    <2> TAKE f \in used
    <2>1. \E p : \E v \in Addresses, n \in 0 .. 3 : p = Prefix(v, n) /\ TableAt(m, r, v, n) = f
      BY <1>2
    <2>2. place[f] = CHOOSE p : \E v \in Addresses, n \in 0 .. 3 :
                       p = Prefix(v, n) /\ TableAt(m, r, v, n) = f
      BY <1>p
    <2> QED  BY <2>1, <2>2, Zenon
  <1>4. \A f \in used : f # None  BY <1>u, FrameFacts
  <1>5. ASSUME NEW f \in used PROVE place[f] \in TablesFor(Pages) \ bare
    <2>1. PICK v \in Addresses, n \in 0 .. 3 : place[f] = Prefix(v, n) /\ TableAt(m, r, v, n) = f
      BY <1>3
    <2>2. place[f] \notin bare  BY <1>4, <2>1
    <2>3. CASE n = 0  BY <2>1, <2>2, <2>3, PlacesFacts
    <2>4. CASE n # 0
      <3>1. n \in 1 .. 3  BY <2>4
      <3>2. PICK w \in Addresses, l \in n + 1 .. 4 : Agree(w, v, n) /\ IsPage(l, EntryAt(m, r, w, l))
        BY <1>1, <1>4, <2>1, <3>1, PageBelow
      <3>3. l \in 1 .. 4 /\ n \in 1 .. l - 1  BY <3>1
      <3>4. Prefix(w, l) \in Pages  BY <1>1, <3>2, <3>3 DEF Tree, PagesAreCallers
      <3>5. Len(Prefix(w, l)) = l  BY <3>3, PrefixLen
      <3>6. Prefix(w, n) \in TablesFor(Pages)  BY <3>3, <3>4, <3>5, PlacesFacts
      <3>7. Prefix(w, n) = Prefix(v, n)  BY <3>2 DEF Agree, Prefix
      <3> QED  BY <2>1, <2>2, <3>6, <3>7
    <2> QED  BY <2>3, <2>4
  <1>6. ASSUME NEW f \in used, NEW g \in used, place[f] = place[g] PROVE f = g
    <2>1. PICK v \in Addresses, j \in 0 .. 3 : place[f] = Prefix(v, j) /\ TableAt(m, r, v, j) = f
      BY <1>3
    <2>2. PICK w \in Addresses, k \in 0 .. 3 : place[g] = Prefix(w, k) /\ TableAt(m, r, w, k) = g
      BY <1>3
    <2>3. j \in 0 .. 4 /\ k \in 0 .. 4 /\ j <= j  OBVIOUS
    <2>4. j = k /\ Agree(v, w, j)  BY <1>6, <2>1, <2>2, <2>3, PlaceIs
    <2>5. TableAt(m, r, v, j) = TableAt(m, r, w, j)  BY <2>3, <2>4, AgreeSame
    <2> QED  BY <2>1, <2>2, <2>4, <2>5
  <1>7. place \in Injection(used, TablesFor(Pages) \ bare)
    <2>1. place \in [used -> TablesFor(Pages) \ bare]  BY <1>p, <1>5
    <2> QED  BY <2>1, <1>6 DEF Injection, IsInjective
  <1>8. /\ IsFiniteSet(TablesFor(Pages) \ bare)
        /\ Cardinality(TablesFor(Pages) \ bare) = Cardinality(TablesFor(Pages)) - Cardinality(bare)
    <2>1. TablesFor(Pages) \cap bare = bare  OBVIOUS
    <2> QED  BY <2>1, PlacesFacts, FS_Difference
  <1>9. Cardinality(used) <= Cardinality(TablesFor(Pages) \ bare)  BY <1>7, <1>8, FS_Injection
  <1> QED  BY <1>u, <1>8, <1>9

\* With a frame for every place, apart from those set apart, no page lacks frames
\* for the tables above it.
LEMMA FramesSuffice ==
    ASSUME NEW m, NEW r, NEW fr, NEW apart, TreeBeside(m, r, fr, apart), NoneEmptyBut(m, r, r),
           IsFiniteSet(Pages),
           Cardinality(TablesFor(Pages)) + Cardinality(apart) <= Cardinality(TableFrames),
           NEW page \in Pages, NEW v \in Addresses, NEW L, L = Len(page), Prefix(v, L) = page
    PROVE  Cardinality(Missing(m, r, v, 1, L)) <= Cardinality(fr)
  <1>l. L \in 2 .. 4  BY PageFacts
  <1>m. PICK missing : missing = Missing(m, r, v, 1, L)  OBVIOUS
  <1>b. PICK bare : bare = {Prefix(v, n) : n \in missing}  OBVIOUS
  <1>1. missing \subseteq 1 .. L - 1 /\ \A n \in missing : TableAt(m, r, v, n) = None
    BY <1>m DEF Missing
  <1>2. \A n \in missing : n \in 0 .. 3 /\ n \in 0 .. 4 /\ n \in 1 .. L - 1  BY <1>1, <1>l
  <1>3. bare \subseteq TablesFor(Pages)  BY <1>b, <1>2, PlacesFacts
  <1>4. ASSUME NEW w \in Addresses, NEW k \in 0 .. 3, Prefix(w, k) \in bare
        PROVE  TableAt(m, r, w, k) = None
    <2>1. PICK n \in missing : Prefix(w, k) = Prefix(v, n)  BY <1>4, <1>b
    <2>2. k \in 0 .. 4 /\ n \in 0 .. 4 /\ k <= k  BY <1>2
    <2>3. k = n /\ Agree(w, v, k)  BY <2>1, <2>2, PlaceIs
    <2>4. TableAt(m, r, w, k) = TableAt(m, r, v, k)  BY <2>2, <2>3, AgreeSame
    <2> QED  BY <1>1, <2>3, <2>4
  <1>5. Cardinality(missing) <= Cardinality(bare)
    <2>1. PICK g : g = [n \in missing |-> Prefix(v, n)]  OBVIOUS
    <2>2. g \in [missing -> bare]  BY <1>b, <2>1
    <2>3. \A j, k \in missing : g[j] = g[k] => j = k  BY <1>2, <2>1, PlaceIs
    <2>4. g \in Injection(missing, bare)  BY <2>2, <2>3 DEF Injection, IsInjective
    <2>5. IsFiniteSet(bare)  BY <1>3, PlacesFacts, FS_Subset
    <2> QED  BY <2>4, <2>5, FS_Injection
  <1>u. PICK used : used = TableFrames \ (fr \union apart)  OBVIOUS
  <1>6. Cardinality(used) <= Cardinality(TablesFor(Pages)) - Cardinality(bare)
    BY <1>3, <1>4, <1>u, TablesCounted
  <1>7. Cardinality(TableFrames) = Cardinality(used) + Cardinality(fr) + Cardinality(apart)
    <2>1. /\ IsFiniteSet(TableFrames) /\ fr \subseteq TableFrames /\ apart \subseteq TableFrames
          /\ fr \cap apart = {}
      BY FramesAssumption, BesideFacts DEF TreeBeside
    <2>2. IsFiniteSet(fr) /\ IsFiniteSet(apart)  BY <2>1, FS_Subset
    <2>3. /\ IsFiniteSet(fr \union apart)
          /\ Cardinality(fr \union apart) = Cardinality(fr) + Cardinality(apart) - Cardinality({})
      BY <2>1, <2>2, FS_Union
    <2>4. Cardinality(used) = Cardinality(TableFrames) - Cardinality(fr \union apart)
      <3>1. TableFrames \cap (fr \union apart) = fr \union apart  BY <2>1
      <3> QED  BY <1>u, <2>1, <3>1, FS_Difference
    <2>5. /\ Cardinality({}) = 0 /\ Cardinality(fr) \in Nat /\ Cardinality(apart) \in Nat
          /\ Cardinality(TableFrames) \in Nat
      BY <2>1, <2>2, FS_EmptySet, FS_CardinalityType
    <2> QED  BY <2>3, <2>4, <2>5
  <1>8. /\ Cardinality(TablesFor(Pages)) \in Nat /\ Cardinality(bare) \in Nat
        /\ Cardinality(used) \in Nat /\ Cardinality(fr) \in Nat /\ Cardinality(apart) \in Nat
        /\ Cardinality(missing) \in Nat
    <2>1. IsFiniteSet(bare) /\ IsFiniteSet(TablesFor(Pages))  BY <1>3, PlacesFacts, FS_Subset
    <2>2. IsFiniteSet(fr) /\ IsFiniteSet(apart) /\ IsFiniteSet(used)
      BY <1>u, FramesAssumption, BesideFacts, FS_Subset
    <2>3. IsFiniteSet(missing)
      <3>1. IsFiniteSet(1 .. L - 1)  BY <1>l, FS_Interval
      <3> QED  BY <1>1, <3>1, FS_Subset
    <2> QED  BY <2>1, <2>2, <2>3, FS_CardinalityType
  <1> QED  BY <1>m, <1>5, <1>6, <1>7, <1>8

-----------------------------------------------------------------------------
(* A walk that maps the pages of a set, one after the other.               *)

\* Pages to be mapped, each by an entry of its size that leads to data.
Target(pages, entry) ==
    /\ pages \subseteq Pages
    /\ Separate(pages)
    /\ \A page \in pages : /\ entry[page] \in Entries
                           /\ IsPage(Len(page), entry[page])
                           /\ entry[page].base \in DataFrames

\* The tables of an address space that maps some of these pages and nothing else.
Copied(m, s, r, apart, pages, entry) ==
    /\ TreeBeside(s.mem, r, s.free, apart)
    /\ NoneEmptyBut(s.mem, r, r)
    /\ SameApart(m, s.mem, apart)
    /\ MapsExactly(s.mem, r, pages, entry)

\* A page that is none of those mapped finds its place empty, and no page above it.
LEMMA PlaceFree ==
    ASSUME NEW m, NEW r, NEW fr, NEW apart, TreeBeside(m, r, fr, apart), NoneEmptyBut(m, r, r),
           NEW pages, NEW entry, Target(pages, entry),
           NEW done, done \subseteq pages, MapsExactly(m, r, done, entry),
           NEW page \in pages, page \notin done,
           NEW v \in Addresses, NEW L, L = Len(page), Prefix(v, L) = page
    PROVE  /\ \A n \in 1 .. L - 1 : ~IsPage(n, EntryAt(m, r, v, n))
           /\ ~EntryAt(m, r, v, L).present
  <1>l. L \in 2 .. 4 /\ L \in 1 .. 4
    <2>1. page \in Pages  BY DEF Target
    <2>2. L \in 2 .. 4  BY <2>1, PageFacts
    <2> QED  BY <2>2
  <1>1. ASSUME NEW n \in 1 .. L - 1, IsPage(n, EntryAt(m, r, v, n)) PROVE FALSE
    <2>1. n \in 1 .. 4 /\ n < L  BY <1>l
    <2>2. Prefix(v, n) \in pages  BY <1>1, <2>1 DEF MapsExactly
    <2>3. Agree(v, v, n)  BY DEF Agree
    <2>4. Inside(page, Prefix(v, n))  BY <1>l, <2>1, <2>3, PrefixesNest
    <2> QED  BY <2>2, <2>4 DEF Target, Separate
  <1>2. ~IsPage(L, EntryAt(m, r, v, L))  BY <1>l DEF MapsExactly
  <1>3. ASSUME EntryAt(m, r, v, L).present PROVE FALSE
    <2>1. L # 4  BY <1>2, <1>3 DEF IsPage
    <2>2. L \in 1 .. 3  BY <1>l, <2>1
    <2>3. TableAt(m, r, v, L) # None
      <3>1. TableAt(m, r, v, L) = EntryAt(m, r, v, L).base
        <4>1. PICK x : x = EntryAt(m, r, v, L)  OBVIOUS
        <4>2. TableAt(m, r, v, L) = Below(L, x)
          <5>1. \A n \in 1 .. 3 : TableAt(m, r, v, n) = Below(n, EntryAt(m, r, v, n))  BY TableStep
          <5> QED  BY <2>2, <4>1, <5>1
        <4>3. Below(L, x) = x.base  BY <1>2, <1>3, <4>1, BelowFacts
        <4> QED  BY <4>1, <4>2, <4>3
      <3>2. EntryAt(m, r, v, L) \in Entries  BY <1>l, BesideFacts
      <3> QED  BY <1>3, <3>1, <3>2, EntryFacts, FrameFacts
    <2>4. PICK w \in Addresses, n \in L + 1 .. 4 : Agree(w, v, L) /\ IsPage(n, EntryAt(m, r, w, n))
      BY <2>2, <2>3, PageBelow DEF TreeBeside
    <2>5. n \in 1 .. 4 /\ L < n  BY <1>l
    <2>6. Prefix(w, n) \in pages  BY <2>4, <2>5 DEF MapsExactly
    <2>7. Inside(Prefix(w, n), page)  BY <1>l, <2>4, <2>5, PrefixesNest
    <2> QED  BY <2>6, <2>7 DEF Target, Separate
  <1> QED  BY <1>1, <1>3

\* Mapping it adds it to the pages mapped.
LEMMA PageAdded ==
    ASSUME NEW m, NEW s, NEW r, NEW apart, NEW pages, NEW entry, Target(pages, entry),
           IsFiniteSet(Pages),
           Cardinality(TablesFor(Pages)) + Cardinality(apart) <= Cardinality(TableFrames),
           NEW done, done \subseteq pages, Copied(m, s, r, apart, done, entry),
           NEW page \in pages, page \notin done,
           NEW d, d = Mapped(s, r, page, entry[page].base, entry[page].page_size)
    PROVE  Copied(m, [mem |-> d.mem, free |-> d.free], r, apart, done \union {page}, entry)
  <1>e. PICK e : e = entry[page]  OBVIOUS
  <1>l. PICK L \in 2 .. 4 : L = Len(page)  BY PageFacts DEF Target
  <1>v. PICK v \in Addresses : Prefix(v, L) = page  BY <1>l, PageFacts DEF Target
  <1>1. /\ TreeBeside(s.mem, r, s.free, apart)
        /\ NoneEmptyBut(s.mem, r, r)
        /\ SameApart(m, s.mem, apart)
        /\ MapsExactly(s.mem, r, done, entry)
    BY DEF Copied
  <1>2. /\ page \in Pages /\ e \in Entries /\ IsPage(L, e) /\ e.base \in DataFrames
        /\ L \in 1 .. 4
    BY <1>e, <1>l DEF Target
  <1>3. /\ \A n \in 1 .. L - 1 : ~IsPage(n, EntryAt(s.mem, r, v, n))
        /\ ~EntryAt(s.mem, r, v, L).present
    BY <1>1, <1>l, <1>v, PlaceFree
  <1>4. Cardinality(Missing(s.mem, r, v, 1, L)) <= Cardinality(s.free)
    BY <1>1, <1>2, <1>l, <1>v, FramesSuffice
  <1>5. /\ TreeBeside(d.mem, r, d.free, apart)
        /\ NoneEmptyBut(d.mem, r, r)
        /\ SameApart(s.mem, d.mem, apart)
        /\ SamePagesBut(s.mem, d.mem, r, v, L)
        /\ EntryAt(d.mem, r, v, L) = e
    <2>1. d = Mapped(s, r, page, e.base, e.page_size)  BY <1>e
    <2> QED  BY <1>1, <1>2, <1>3, <1>4, <1>l, <1>v, <2>1, PageMapped
  <1>6. SameApart(m, d.mem, apart)  BY <1>1, <1>5 DEF SameApart
  <1>7. MapsExactly(d.mem, r, done \union {page}, entry)
    <2> SUFFICES ASSUME NEW w \in Addresses, NEW n \in 1 .. 4
                 PROVE  /\ IsPage(n, EntryAt(d.mem, r, w, n)) => Prefix(w, n) \in done \union {page}
                        /\ Prefix(w, n) \in done \union {page}
                             => EntryAt(d.mem, r, w, n) = entry[Prefix(w, n)]
      BY DEF MapsExactly
    <2>1. CASE Agree(w, v, L) /\ n = L
      <3>1. Prefix(w, n) = page  BY <1>v, <2>1 DEF Agree, Prefix
      <3>2. EntryAt(d.mem, r, w, L) = EntryAt(d.mem, r, v, L)
        <4>1. L \in 0 .. 4 /\ L <= L  OBVIOUS
        <4> QED  BY <1>2, <2>1, <4>1, AgreeSame
      <3> QED  BY <1>5, <1>e, <2>1, <3>1, <3>2
    <2>2. CASE ~(Agree(w, v, L) /\ n = L)
      <3>1. Prefix(w, n) # page
        <4>1. n \in 0 .. 4 /\ L \in 0 .. 4  OBVIOUS
        <4> QED  BY <1>v, <2>2, <4>1, PlaceIs
      <3>2. IsPage(n, EntryAt(s.mem, r, w, n)) \/ IsPage(n, EntryAt(d.mem, r, w, n))
              => EntryAt(d.mem, r, w, n) = EntryAt(s.mem, r, w, n)
        BY <1>5, <2>2 DEF SamePagesBut
      <3>3. IsPage(n, EntryAt(d.mem, r, w, n)) => Prefix(w, n) \in done
        BY <1>1, <3>2 DEF MapsExactly
      <3>4. ASSUME Prefix(w, n) \in done
            PROVE  EntryAt(d.mem, r, w, n) = entry[Prefix(w, n)]
        <4>1. EntryAt(s.mem, r, w, n) = entry[Prefix(w, n)]  BY <1>1, <3>4 DEF MapsExactly
        <4>2. IsPage(Len(Prefix(w, n)), entry[Prefix(w, n)])  BY <3>4 DEF Target
        <4>3. Len(Prefix(w, n)) = n  BY PrefixLen
        <4> QED  BY <3>2, <4>1, <4>2, <4>3
      <3> QED  BY <3>1, <3>3, <3>4
    <2> QED  BY <2>1, <2>2
  <1>8. PICK s2 : s2 = [mem |-> d.mem, free |-> d.free]  OBVIOUS
  <1>9. s2.mem = d.mem /\ s2.free = d.free  BY <1>8
  <1>10. Copied(m, s2, r, apart, done \union {page}, entry)  BY <1>5, <1>6, <1>7, <1>9 DEF Copied
  <1> QED  BY <1>8, <1>10

\* What holds of 0 and is passed on by each number holds up to n.
LEMMA UpTo ==
    ASSUME NEW n \in Nat, NEW T, 0 \in T, \A k \in 0 .. n - 1 : k \in T => k + 1 \in T
    PROVE  \A k \in 0 .. n : k \in T
  <1> SUFFICES ASSUME NEW k0 \in 0 .. n, k0 \notin T PROVE FALSE
    OBVIOUS
  <1> DEFINE Smaller == {ss \in Nat \X Nat : ss[1] < ss[2]}
             Others == {k \in 0 .. n : k \notin T}
  <1>1. IsWellFoundedOn(Smaller, Nat)  BY NatLessThanWellFounded DEF OpToRel
  <1>2. \A a, b \in Nat : <<a, b>> \in Smaller <=> a < b  OBVIOUS
  <1>3. Others \subseteq Nat /\ Others # {}  OBVIOUS
  <1> HIDE DEF Smaller, Others
  <1>4. PICK k \in Others : \A j \in Others : ~(<<j, k>> \in Smaller)  BY <1>1, <1>3, WFMin
  <1>5. k \in 0 .. n /\ k \notin T  BY DEF Others
  <1>6. k - 1 \in 0 .. n - 1 /\ k - 1 \in Nat /\ k \in Nat  BY <1>5
  <1>7. k - 1 \notin Others
    <2>1. PICK j : j = k - 1  OBVIOUS
    <2>2. j \in Nat /\ j < k  BY <1>6, <2>1
    <2>3. <<j, k>> \in Smaller  BY <1>2, <1>6, <2>2
    <2> QED  BY <1>4, <2>1, <2>3
  <1>8. k - 1 \in T  BY <1>6, <1>7 DEF Others
  <1>9. (k - 1) + 1 = k  BY <1>6
  <1> QED  BY <1>5, <1>6, <1>8, <1>9

\* Each step of a walk maps the next page, as long as what is apart is unchanged.
MapsEach(m, after, N, r, apart, walk, entry) ==
    \A n \in 0 .. N - 1 : SameApart(m, after[n].mem, apart) =>
      LET page == walk[n + 1]
          d == Mapped(after[n], r, page, entry[page].base, entry[page].page_size)
      IN  after[n + 1] = [mem |-> d.mem, free |-> d.free]

\* So at its end all pages are mapped.
LEMMA WalkDone ==
    ASSUME NEW m, NEW r, NEW apart, NEW pages, NEW entry, Target(pages, entry),
           IsFiniteSet(Pages),
           Cardinality(TablesFor(Pages)) + Cardinality(apart) <= Cardinality(TableFrames),
           NEW N, N = Cardinality(pages), NEW after,
           Copied(m, after[0], r, apart, {}, entry),
           MapsEach(m, after, N, r, apart, Walk(pages), entry)
    PROVE  Copied(m, after[N], r, apart, pages, entry)
  <1>w. PICK walk : walk = Walk(pages)  OBVIOUS
  <1>0. /\ N \in Nat /\ walk \in [1 .. N -> pages]
        /\ \A j, k \in 1 .. N : walk[j] = walk[k] => j = k
        /\ \A p \in pages : \E k \in 1 .. N : walk[k] = p
    <2>1. pages \subseteq Paths  BY PagesAssumption DEF Target, Paths
    <2>2. IsFiniteSet(pages)  BY FS_Subset DEF Target
    <2>3. Separate(pages)  BY DEF Target
    <2> QED  BY <1>w, <2>1, <2>2, <2>3, WalkFacts
  <1>t. PICK T : T = {n \in 0 .. N : Copied(m, after[n], r, apart, {walk[k] : k \in 1 .. n}, entry)}
    OBVIOUS
  <1>1. 0 \in T
    <2>1. {walk[k] : k \in 1 .. 0} = {} /\ 0 \in 0 .. N  BY <1>0
    <2> QED  BY <1>t, <2>1
  <1>2. ASSUME NEW n \in 0 .. N - 1, n \in T PROVE n + 1 \in T
    <2>d. PICK done : done = {walk[k] : k \in 1 .. n}  OBVIOUS
    <2>p. PICK page : page = walk[n + 1]  OBVIOUS
    <2>m. PICK d : d = Mapped(after[n], r, page, entry[page].base, entry[page].page_size)
      OBVIOUS
    <2>1. Copied(m, after[n], r, apart, done, entry)  BY <1>2, <1>t, <2>d
    <2>2. n + 1 \in 1 .. N /\ n + 1 \in 0 .. N /\ \A k \in 1 .. n : k \in 1 .. N /\ k # n + 1
      BY <1>0
    <2>3. page \in pages /\ page \notin done /\ done \subseteq pages
      BY <1>0, <2>2, <2>d, <2>p
    <2>4. after[n + 1] = [mem |-> d.mem, free |-> d.free]
      BY <1>w, <2>1, <2>m, <2>p DEF MapsEach, Copied
    <2>5. Copied(m, after[n + 1], r, apart, done \union {page}, entry)
      BY <2>1, <2>3, <2>4, <2>m, PageAdded
    <2>6. done \union {page} = {walk[k] : k \in 1 .. n + 1}
      <3>1. \A k \in 1 .. n + 1 : k \in 1 .. n \/ k = n + 1  BY <1>0
      <3>2. n + 1 \in 1 .. n + 1 /\ \A k \in 1 .. n : k \in 1 .. n + 1  BY <1>0
      <3> QED  BY <2>d, <2>p, <3>1, <3>2
    <2> QED  BY <1>t, <2>2, <2>5, <2>6
  <1>3. N \in T
    <2>1. N \in 0 .. N  BY <1>0
    <2> QED  BY <1>0, <1>1, <1>2, <2>1, UpTo
  <1>4. {walk[k] : k \in 1 .. N} = pages  BY <1>0
  <1> QED  BY <1>3, <1>4, <1>t

\* The copies after each page of a walk, up to the N-th.
AreCopies(after, s, source, new, walk, N) ==
    after = [n \in 0 .. N |-> IF n = 0 THEN s ELSE CopyPage(after[n - 1], source, new, walk[n])]

LEMMA CopiesExist ==
    ASSUME NEW s, NEW source, NEW new, NEW walk, NEW N \in Nat
    PROVE  \E after : AreCopies(after, s, source, new, walk, N)
  <1>t. PICK T : T = {n \in 0 .. N : \E after : AreCopies(after, s, source, new, walk, n)}
    OBVIOUS
  <1>1. 0 \in T
    <2>1. PICK after : after = [n \in 0 .. 0 |-> s]  OBVIOUS
    <2>2. AreCopies(after, s, source, new, walk, 0)  BY <2>1 DEF AreCopies
    <2> QED  BY <1>t, <2>2
  <1>2. ASSUME NEW n \in 0 .. N - 1, n \in T PROVE n + 1 \in T
    <2>1. PICK p : AreCopies(p, s, source, new, walk, n)  BY <1>2, <1>t
    <2>2. n \in Nat /\ n + 1 \in 0 .. N  OBVIOUS
    <2>3. PICK last : last = CopyPage(p[n], source, new, walk[n + 1])  OBVIOUS
    <2>4. PICK q : q = [k \in 0 .. n + 1 |-> IF k = n + 1 THEN last ELSE p[k]]  OBVIOUS
    <2>5. ASSUME NEW k \in 0 .. n + 1
          PROVE  q[k] = IF k = 0 THEN s ELSE CopyPage(q[k - 1], source, new, walk[k])
      <3>1. CASE k = n + 1
        <4>1. k # 0 /\ k - 1 = n /\ n \in 0 .. n + 1 /\ n # n + 1  BY <2>2, <3>1
        <4>2. q[k] = last /\ q[k - 1] = p[n]  BY <2>4, <3>1, <4>1
        <4> QED  BY <2>3, <3>1, <4>1, <4>2
      <3>2. CASE k # n + 1
        <4>1. k \in 0 .. n  BY <2>2, <3>2
        <4>2. p[k] = IF k = 0 THEN s ELSE CopyPage(p[k - 1], source, new, walk[k])
          BY <2>1, <4>1 DEF AreCopies
        <4>3. q[k] = p[k]  BY <2>4, <3>2
        <4>4. k # 0 => q[k - 1] = p[k - 1]  BY <2>2, <2>4, <4>1
        <4> QED  BY <4>2, <4>3, <4>4
      <3> QED  BY <3>1, <3>2
    <2>6. AreCopies(q, s, source, new, walk, n + 1)  BY <2>4, <2>5 DEF AreCopies
    <2> QED  BY <1>t, <2>2, <2>6
  <1>3. N \in T
    <2>1. N \in 0 .. N  OBVIOUS
    <2> QED  BY <1>1, <1>2, <2>1, UpTo
  <1> QED  BY <1>3, <1>t

\* CopyPages copies one page after the other.
LEMMA CopyPagesIs ==
    ASSUME NEW s, NEW source, NEW new, NEW walk, NEW N \in Nat, N = Len(walk)
    PROVE  \E after : /\ after[0] = s
                      /\ \A n \in 0 .. N - 1 :
                           after[n + 1] = CopyPage(after[n], source, new, walk[n + 1])
                      /\ CopyPages(s, source, new, walk) = after[N]
  <1>1. PICK p : AreCopies(p, s, source, new, walk, N)  BY CopiesExist
  <1>2. PICK after : /\ AreCopies(after, s, source, new, walk, N)
                     /\ CopyPages(s, source, new, walk) = after[N]
    BY <1>1, Zenon DEF CopyPages, AreCopies
  <1>3. 0 \in 0 .. N  OBVIOUS
  <1>4. after[0] = s  BY <1>2, <1>3 DEF AreCopies
  <1>5. ASSUME NEW n \in 0 .. N - 1
        PROVE  after[n + 1] = CopyPage(after[n], source, new, walk[n + 1])
    <2>1. n + 1 \in 0 .. N /\ n + 1 # 0 /\ (n + 1) - 1 = n  OBVIOUS
    <2>2. after[n + 1] = CopyPage(after[(n + 1) - 1], source, new, walk[n + 1])
      BY <1>2, <2>1 DEF AreCopies
    <2> QED  BY <2>1, <2>2
  <1> QED  BY <1>2, <1>4, <1>5

\* One page is mapped by an entry of its size.
MapOne(s, pml4, page, phys) ==
    LET r == Mapped(s, pml4, page, phys, Len(page) < 4)
    IN  [mem |-> r.mem, free |-> r.free]

\* The address spaces after each page the bootloader maps, up to the N-th.
AreMaps(after, s, pml4, walk, phys, N) ==
    after = [n \in 0 .. N |-> IF n = 0 THEN s ELSE MapOne(after[n - 1], pml4, walk[n], phys[walk[n]])]

LEMMA MapsExist ==
    ASSUME NEW s, NEW pml4, NEW walk, NEW phys, NEW N \in Nat
    PROVE  \E after : AreMaps(after, s, pml4, walk, phys, N)
  <1>t. PICK T : T = {n \in 0 .. N : \E after : AreMaps(after, s, pml4, walk, phys, n)}
    OBVIOUS
  <1>1. 0 \in T
    <2>1. PICK after : after = [n \in 0 .. 0 |-> s]  OBVIOUS
    <2>2. AreMaps(after, s, pml4, walk, phys, 0)  BY <2>1 DEF AreMaps
    <2> QED  BY <1>t, <2>2
  <1>2. ASSUME NEW n \in 0 .. N - 1, n \in T PROVE n + 1 \in T
    <2>1. PICK p : AreMaps(p, s, pml4, walk, phys, n)  BY <1>2, <1>t
    <2>2. n \in Nat /\ n + 1 \in 0 .. N  OBVIOUS
    <2>3. PICK last : last = MapOne(p[n], pml4, walk[n + 1], phys[walk[n + 1]])  OBVIOUS
    <2>4. PICK q : q = [k \in 0 .. n + 1 |-> IF k = n + 1 THEN last ELSE p[k]]  OBVIOUS
    <2>5. ASSUME NEW k \in 0 .. n + 1
          PROVE  q[k] = IF k = 0 THEN s ELSE MapOne(q[k - 1], pml4, walk[k], phys[walk[k]])
      <3>1. CASE k = n + 1
        <4>1. k # 0 /\ k - 1 = n /\ n \in 0 .. n + 1 /\ n # n + 1  BY <2>2, <3>1
        <4>2. q[k] = last /\ q[k - 1] = p[n]  BY <2>4, <3>1, <4>1
        <4> QED  BY <2>3, <3>1, <4>1, <4>2
      <3>2. CASE k # n + 1
        <4>1. k \in 0 .. n  BY <2>2, <3>2
        <4>2. p[k] = IF k = 0 THEN s ELSE MapOne(p[k - 1], pml4, walk[k], phys[walk[k]])
          BY <2>1, <4>1 DEF AreMaps
        <4>3. q[k] = p[k]  BY <2>4, <3>2
        <4>4. k # 0 => q[k - 1] = p[k - 1]  BY <2>2, <2>4, <4>1
        <4> QED  BY <4>2, <4>3, <4>4
      <3> QED  BY <3>1, <3>2
    <2>6. AreMaps(q, s, pml4, walk, phys, n + 1)  BY <2>4, <2>5 DEF AreMaps
    <2> QED  BY <1>t, <2>2, <2>6
  <1>3. N \in T
    <2>1. N \in 0 .. N  OBVIOUS
    <2> QED  BY <1>1, <1>2, <2>1, UpTo
  <1> QED  BY <1>3, <1>t

\* MapAll maps one page after the other.
LEMMA MapAllIs ==
    ASSUME NEW s, NEW pml4, NEW walk, NEW phys, NEW N \in Nat, N = Len(walk)
    PROVE  \E after : /\ after[0] = s
                      /\ \A n \in 0 .. N - 1 :
                           after[n + 1] = MapOne(after[n], pml4, walk[n + 1], phys[walk[n + 1]])
                      /\ MapAll(s, pml4, walk, phys) = after[N]
  <1>1. PICK p : AreMaps(p, s, pml4, walk, phys, N)  BY MapsExist
  <1>2. PICK after : /\ AreMaps(after, s, pml4, walk, phys, N)
                     /\ MapAll(s, pml4, walk, phys) = after[N]
    BY <1>1, Zenon DEF MapAll, AreMaps, MapOne
  <1>3. 0 \in 0 .. N  OBVIOUS
  <1>4. after[0] = s  BY <1>2, <1>3 DEF AreMaps
  <1>5. ASSUME NEW n \in 0 .. N - 1
        PROVE  after[n + 1] = MapOne(after[n], pml4, walk[n + 1], phys[walk[n + 1]])
    <2>1. n + 1 \in 0 .. N /\ n + 1 # 0 /\ (n + 1) - 1 = n  OBVIOUS
    <2>2. after[n + 1] = MapOne(after[(n + 1) - 1], pml4, walk[n + 1], phys[walk[n + 1]])
      BY <1>2, <2>1 DEF AreMaps
    <2> QED  BY <2>1, <2>2
  <1> QED  BY <1>2, <1>4, <1>5

-----------------------------------------------------------------------------
(* The pages of an address space, and its tables.                          *)

\* A page of any address space is the common beginning of addresses.
LEMMA PathFacts ==
    ASSUME NEW page \in Paths
    PROVE  /\ Len(page) \in 2 .. 4
           /\ \E v \in Addresses : /\ Prefix(v, Len(page)) = page
                                   /\ \A m, r : PageEntry(m, r, page) = EntryAt(m, r, v, Len(page))
  <1>1. PICK L \in 2 .. 4 : page \in [1 .. L -> Index]  BY DEF Paths
  <1>2. L = Len(page)  BY <1>1
  <1>3. PICK i : i \in Index  BY IndexAssumption
  <1>4. PICK v : v = [n \in 1 .. 4 |-> IF n <= L THEN page[n] ELSE i]  OBVIOUS
  <1>5. v \in Addresses  BY <1>1, <1>3, <1>4 DEF Addresses
  <1>6. Prefix(v, L) = page /\ Agree(v, page, L)  BY <1>1, <1>4 DEF Prefix, Agree
  <1>7. ASSUME NEW m, NEW r PROVE PageEntry(m, r, page) = EntryAt(m, r, v, L)
    <2>1. L \in 1 .. 4 /\ L \in 0 .. 4 /\ L <= L  OBVIOUS
    <2>2. EntryAt(m, r, v, L) = EntryAt(m, r, page, L)  BY <1>6, <2>1, AgreeSame
    <2> QED  BY <1>2, <2>2 DEF PageEntry
  <1> QED  BY <1>2, <1>5, <1>6, <1>7

\* What is mapped can be mapped elsewhere.
LEMMA LeavesTarget ==
    ASSUME NEW m, NEW r, NEW fr, NEW apart, TreeBeside(m, r, fr, apart),
           NEW entry, entry = [page \in Leaves(m, r) |-> PageEntry(m, r, page)]
    PROVE  Target(Leaves(m, r), entry)
  <1>1. ASSUME NEW page \in Leaves(m, r)
        PROVE  /\ page \in Pages /\ entry[page] \in Entries
               /\ IsPage(Len(page), entry[page]) /\ entry[page].base \in DataFrames
    <2>1. page \in Paths /\ IsPage(Len(page), PageEntry(m, r, page))  BY DEF Leaves
    <2>2. PICK v \in Addresses : /\ Prefix(v, Len(page)) = page
                                 /\ \A x, y : PageEntry(x, y, page) = EntryAt(x, y, v, Len(page))
      BY <2>1, PathFacts
    <2>3. PICK L \in 2 .. 4 : L = Len(page)  BY <2>1, PathFacts
    <2>4. L \in 1 .. 4 /\ entry[page] = EntryAt(m, r, v, L)  BY <2>2, <2>3
    <2>5. IsPage(L, EntryAt(m, r, v, L))  BY <2>1, <2>2, <2>3
    <2>6. Prefix(v, L) \in Pages /\ EntryAt(m, r, v, L).base \in DataFrames
      BY <2>4, <2>5, BesideFacts DEF PagesAreCallers
    <2>7. EntryAt(m, r, v, L) \in Entries  BY <2>4, BesideFacts
    <2> QED  BY <2>2, <2>3, <2>4, <2>5, <2>6, <2>7
  <1>2. ASSUME NEW p \in Leaves(m, r), NEW q \in Leaves(m, r), Inside(p, q) PROVE FALSE
    <2>a. PICK a \in 2 .. 4 : a = Len(p) /\ p \in [1 .. a -> Index]  BY <1>1, PageFacts
    <2>b. PICK b \in 2 .. 4 : b = Len(q) /\ q \in [1 .. b -> Index]  BY <1>1, PageFacts
    <2>1. b <= a /\ \A n \in 1 .. b : q[n] = p[n]
      <3>1. a \in Nat /\ b \in Nat  OBVIOUS
      <3>2. IsPrefix(q, p)  BY <1>2 DEF Inside, IsStrictPrefix
      <3>3. p \in [1 .. a -> Index] /\ q \in [1 .. b -> Index]  BY <2>a, <2>b
      <3>4. b <= a /\ \A n \in 1 .. b : q[n] = p[n]  BY <3>1, <3>2, <3>3, PrefixIs
      <3> QED  BY <3>4
    <2>2. PICK w \in Addresses : Prefix(w, a) = p  BY <1>1, <2>a, PageFacts
    <2>3. Prefix(w, b) = q
      <3>1. \A n \in 1 .. b : w[n] = q[n]
        <4>1. \A n \in 1 .. a : w[n] = p[n]  BY <2>2 DEF Prefix
        <4>2. \A n \in 1 .. b : n \in 1 .. a  BY <2>1
        <4> QED  BY <2>1, <4>1, <4>2
      <3>2. q = [n \in 1 .. b |-> q[n]]  BY <2>b
      <3> QED  BY <3>1, <3>2 DEF Prefix
    <2>4. p # q  BY <1>2 DEF Inside, IsStrictPrefix
    <2>5. a # b  BY <2>2, <2>3, <2>4
    <2>6. PageEntry(m, r, p) = EntryAt(m, r, w, a) /\ PageEntry(m, r, q) = EntryAt(m, r, w, b)
      BY <1>1, <2>2, <2>3, <2>a, <2>b, PageEntryIs
    <2>7. b \in 1 .. 3 /\ b \in 1 .. 4 /\ b \in 0 .. 3 /\ a \in b + 1 .. 4 /\ a \in 1 .. 4
      BY <2>1, <2>5
    <2>8. IsPage(a, EntryAt(m, r, w, a)) /\ IsPage(b, EntryAt(m, r, w, b))
      BY <2>6, <2>a, <2>b DEF Leaves
    <2>9. TableAt(m, r, w, b) = None  BY <2>7, <2>8, TableStep, BelowFacts
    <2>10. EntryAt(m, r, w, a) = Absent  BY <2>7, <2>9, NothingBelow
    <2> QED  BY <2>7, <2>8, <2>10, BelowFacts
  <1> QED  BY <1>1, <1>2 DEF Target, Separate

\* What has been mapped is what is found.
LEMMA LeavesMapped ==
    ASSUME NEW m, NEW r, NEW pages, NEW entry, Target(pages, entry), MapsExactly(m, r, pages, entry)
    PROVE  /\ Leaves(m, r) = pages
           /\ \A page \in pages : PageEntry(m, r, page) = entry[page]
  <1>1. pages \subseteq Paths  BY PagesAssumption DEF Target, Paths
  <1>2. ASSUME NEW page \in Paths
        PROVE  /\ IsPage(Len(page), PageEntry(m, r, page)) => page \in pages
               /\ page \in pages => PageEntry(m, r, page) = entry[page]
    <2>1. PICK v \in Addresses : /\ Prefix(v, Len(page)) = page
                                 /\ \A x, y : PageEntry(x, y, page) = EntryAt(x, y, v, Len(page))
      BY PathFacts
    <2>2. PICK L \in 2 .. 4 : L = Len(page)  BY PathFacts
    <2>3. L \in 1 .. 4  OBVIOUS
    <2> QED  BY <2>1, <2>2, <2>3 DEF MapsExactly
  <1>3. \A page \in pages : IsPage(Len(page), PageEntry(m, r, page))  BY <1>1, <1>2 DEF Target
  <1> QED  BY <1>1, <1>2, <1>3 DEF Leaves

\* The tables of an address space are what the PMM has given out and is not apart.
LEMMA TablesAre ==
    ASSUME NEW apart, SpaceInv(apart)
    PROVE  TablesOf(root) = TableFrames \ (free \union apart)
  <1>1. Tree(mem, root, free \union apart)  BY DEF SpaceInv, TreeBeside
  <1>2. TablesOf(root) \subseteq TableFrames \ (free \union apart)
    BY <1>1 DEF Tree, TablesInUse, TablesOf
  <1>3. ASSUME NEW f \in TableFrames \ (free \union apart) PROVE f \in TablesOf(root)
    <2>1. PICK v \in Addresses, n \in 0 .. 3 : TableAt(mem, root, v, n) = f
      BY <1>1 DEF Tree, NoneLost
    <2>2. f # None  BY FrameFacts
    <2> QED  BY <2>1, <2>2 DEF TablesOf
  <1> QED  BY <1>2, <1>3

\* An address space whose tables stay as they are keeps its walk and its tables.
LEMMA UntouchedSpace ==
    ASSUME NEW pml4, \A f \in TablesOf(pml4) : mem'[f] = mem[f]
    PROVE  /\ \A w \in Addresses :
                /\ \A n \in 0 .. 3 : TableAt(mem', pml4, w, n) = TableAt(mem, pml4, w, n)
                /\ \A n \in 1 .. 4 : EntryAt(mem', pml4, w, n) = EntryAt(mem, pml4, w, n)
           /\ {TableAt(mem', pml4, virt, n) : virt \in Addresses, n \in 0 .. 3} \ {None} = TablesOf(pml4)
  <1>1. \A w \in Addresses, n \in 0 .. 3 :
          TableAt(mem, pml4, w, n) # None => mem'[TableAt(mem, pml4, w, n)] = mem[TableAt(mem, pml4, w, n)]
    BY DEF TablesOf
  <1>2. \A w \in Addresses :
          /\ \A n \in 0 .. 3 : TableAt(mem', pml4, w, n) = TableAt(mem, pml4, w, n)
          /\ \A n \in 1 .. 4 : EntryAt(mem', pml4, w, n) = EntryAt(mem, pml4, w, n)
    BY <1>1, SameWalk
  <1> QED  BY <1>2 DEF TablesOf

-----------------------------------------------------------------------------
(* The clone: paging_clone_page_table and what follows it.                 *)

\* Before the clone there is one address space, and the next frame of the PMM is
\* zero; from then on the old one's tables are apart from the kernel's.
CloneInv ==
    /\ FramesForTwo /\ Dirty = FALSE
    /\ old = NULL => SpaceInv({}) /\ mem[PmmAlloc(free)] = EmptyTable
    /\ old # NULL => SpaceInv(TablesOf(old))

\* Half of the frames are enough for an address space.
LEMMA HalfSuffices ==
    ASSUME FramesForTwo, NEW m, NEW r, NEW fr, TreeBeside(m, r, fr, {}), NoneEmptyBut(m, r, r)
    PROVE  /\ Cardinality(TablesFor(Pages)) + Cardinality(TableFrames \ fr) <= Cardinality(TableFrames)
           /\ fr # {}
  <1>1. /\ IsFiniteSet(Pages) /\ IsFiniteSet(TablesFor(Pages)) /\ IsFiniteSet(TableFrames)
        /\ 2 * Cardinality(TablesFor(Pages)) <= Cardinality(TableFrames)
    BY PlacesFacts, FramesAssumption DEF FramesForTwo
  <1>2. Cardinality(TableFrames \ fr) <= Cardinality(TablesFor(Pages))
    <2>1. Cardinality(TableFrames \ (fr \union {})) <= Cardinality(TablesFor(Pages)) - Cardinality({})
      BY <1>1, TablesCounted
    <2>2. fr \union {} = fr /\ Cardinality({}) = 0  BY FS_EmptySet
    <2>3. Cardinality(TablesFor(Pages)) \in Nat  BY <1>1, FS_CardinalityType
    <2> QED  BY <2>1, <2>2, <2>3
  <1>3. /\ Cardinality(TablesFor(Pages)) \in Nat /\ Cardinality(TableFrames \ fr) \in Nat
        /\ Cardinality(TableFrames) \in Nat
    <2>1. IsFiniteSet(TableFrames \ fr)  BY <1>1, FS_Subset
    <2> QED  BY <1>1, <2>1, FS_CardinalityType
  <1>4. Cardinality(TablesFor(Pages)) # 0
    <2>1. TablesFor(Pages) # {}  BY <1>1, PlacesFacts
    <2> QED  BY <1>1, <2>1, FS_EmptySet
  <1>5. ASSUME fr = {} PROVE FALSE
    <2>1. TableFrames \ fr = TableFrames  BY <1>5
    <2>2. PICK a, b : a = Cardinality(TablesFor(Pages)) /\ b = Cardinality(TableFrames)  OBVIOUS
    <2>3. a \in Nat /\ b \in Nat /\ a # 0 /\ 2 * a <= b /\ b <= a
      BY <1>1, <1>2, <1>3, <1>4, <2>1, <2>2
    <2> QED  BY <2>3
  <1>6. Cardinality(TablesFor(Pages)) + Cardinality(TableFrames \ fr) <= Cardinality(TableFrames)
    <2>1. PICK a, b, c : /\ a = Cardinality(TablesFor(Pages)) /\ b = Cardinality(TableFrames)
                         /\ c = Cardinality(TableFrames \ fr)
      OBVIOUS
    <2>2. a \in Nat /\ b \in Nat /\ c \in Nat /\ 2 * a <= b /\ c <= a  BY <1>1, <1>2, <1>3, <2>1
    <2>3. a + c <= b  BY <2>2
    <2> QED  BY <2>1, <2>3
  <1> QED  BY <1>5, <1>6

\* The clone makes tables of its own, by which it maps what the old address space does.
LEMMA CloneStep ==
    ASSUME CloneInv, Clone
    PROVE  /\ CloneInv'
           /\ \A f \in TablesOf(root) : mem'[f] = mem[f]
           /\ Leaves(mem', root') = Leaves(mem, root)
           /\ \A page \in Leaves(mem, root) : PageEntry(mem', root', page) = PageEntry(mem, root, page)
  <1>1. /\ FramesForTwo /\ Dirty = FALSE /\ old = NULL /\ SpaceInv({})
        /\ mem[PmmAlloc(free)] = EmptyTable
    BY DEF Clone, CloneInv
  <1>a. PICK apart : apart = TableFrames \ free  OBVIOUS
  <1>p. PICK pages : pages = Leaves(mem, root)  OBVIOUS
  <1>w. PICK walk : walk = Walk(pages)  OBVIOUS
  <1>e. PICK entry : entry = [page \in pages |-> PageEntry(mem, root, page)]  OBVIOUS
  <1>2. TreeBeside(mem, root, free, {}) /\ NoneEmptyBut(mem, root, root)  BY <1>1 DEF SpaceInv
  <1>3. /\ Cardinality(TablesFor(Pages)) + Cardinality(apart) <= Cardinality(TableFrames)
        /\ free # {} /\ IsFiniteSet(Pages)
    BY <1>1, <1>2, <1>a, HalfSuffices DEF FramesForTwo
  <1>4. TablesOf(root) = apart
    <2>1. free \union {} = free  OBVIOUS
    <2> QED  BY <1>1, <1>a, <2>1, TablesAre
  <1>n. PICK new \in free : new = PmmAlloc(free)  BY <1>3 DEF PmmAlloc
  <1>5. /\ free \subseteq TableFrames /\ new \in TableFrames /\ root \in TableFrames
        /\ mem \in Memories
    BY <1>2, BesideFacts
  <1>s. PICK s0 : s0 = [State EXCEPT !.free = free \ {new}]  OBVIOUS
  <1>6. s0.mem = mem /\ s0.free = free \ {new}  BY <1>s DEF State
  <1>7. Target(pages, entry)  BY <1>2, <1>e, <1>p, LeavesTarget
  <1>8. Copied(mem, s0, new, apart, {}, entry)
    <2>1. /\ (free \ {new}) \union apart = TableFrames \ {new} /\ (free \ {new}) \cap apart = {}
          /\ mem[new] = EmptyTable
      BY <1>1, <1>5, <1>a, <1>n
    <2>2. /\ TreeBeside(mem, new, free \ {new}, apart) /\ NoneEmptyBut(mem, new, new)
          /\ MapsExactly(mem, new, {}, entry)
      BY <1>5, <2>1, FreshTree
    <2> QED  BY <1>6, <2>2 DEF Copied, SameApart
  <1>9. PICK N \in Nat : N = Cardinality(pages) /\ N = Len(walk) /\ walk \in [1 .. N -> pages]
    <2>1. pages \subseteq Paths  BY <1>p DEF Leaves
    <2>2. IsFiniteSet(pages)  BY <1>3, <1>7, FS_Subset DEF Target
    <2>3. Separate(pages)  BY <1>7 DEF Target
    <2> QED  BY <1>w, <2>1, <2>2, <2>3, WalkFacts
  <1>10. PICK after : /\ after[0] = s0
                      /\ \A n \in 0 .. N - 1 :
                           after[n + 1] = CopyPage(after[n], root, new, walk[n + 1])
                      /\ CopyPages(s0, root, new, walk) = after[N]
    BY <1>9, CopyPagesIs
  <1>11. \A m : SameApart(mem, m, apart) =>
           \A page \in pages : PageEntry(m, root, page) = PageEntry(mem, root, page)
    <2> SUFFICES ASSUME NEW m, SameApart(mem, m, apart), NEW page \in pages
                 PROVE  PageEntry(m, root, page) = PageEntry(mem, root, page)
      OBVIOUS
    <2>1. \A w \in Addresses, n \in 0 .. 3 :
            TableAt(mem, root, w, n) # None => m[TableAt(mem, root, w, n)] = mem[TableAt(mem, root, w, n)]
      BY <1>4 DEF TablesOf, SameApart
    <2>2. \A w \in Addresses, n \in 1 .. 4 : EntryAt(m, root, w, n) = EntryAt(mem, root, w, n)
      BY <2>1, SameWalk
    <2>3. page \in Paths  BY <1>p DEF Leaves
    <2>4. PICK v \in Addresses : \A x, y : PageEntry(x, y, page) = EntryAt(x, y, v, Len(page))
      BY <2>3, PathFacts
    <2>5. PICK L \in 1 .. 4 : L = Len(page)
      <3>1. Len(page) \in 2 .. 4  BY <2>3, PathFacts
      <3> QED  BY <3>1
    <2> QED  BY <2>2, <2>4, <2>5
  <1>12. MapsEach(mem, after, N, new, apart, Walk(pages), entry)
    <2> SUFFICES ASSUME NEW n \in 0 .. N - 1, SameApart(mem, after[n].mem, apart),
                        NEW page, page = walk[n + 1],
                        NEW d, d = Mapped(after[n], new, page, entry[page].base, entry[page].page_size)
                 PROVE  after[n + 1] = [mem |-> d.mem, free |-> d.free]
      BY <1>w DEF MapsEach
    <2>1. page \in pages
      <3>1. n + 1 \in 1 .. N  BY <1>9
      <3> QED  BY <1>9, <3>1
    <2>2. PageEntry(after[n].mem, root, page) = entry[page]  BY <1>11, <1>e, <2>1
    <2>3. after[n + 1] = CopyPage(after[n], root, new, page)  BY <1>10
    <2> QED  BY <2>2, <2>3 DEF CopyPage
  <1>13. Copied(mem, after[N], new, apart, pages, entry)
    BY <1>3, <1>7, <1>8, <1>9, <1>10, <1>12, WalkDone
  <1>14. mem' = after[N].mem /\ free' = after[N].free /\ root' = new /\ old' = root
    <2>1. after[N] = CopyPages([State EXCEPT !.free = free \ {PmmAlloc(free)}], root, PmmAlloc(free),
                               Walk(Leaves(mem, root)))
      BY <1>10, <1>n, <1>p, <1>s, <1>w
    <2> QED  BY <1>n, <2>1 DEF Clone
  <1>15. /\ TreeBeside(mem', root', free', apart) /\ NoneEmptyBut(mem', root', root')
         /\ SameApart(mem, mem', apart) /\ MapsExactly(mem', root', pages, entry)
    BY <1>13, <1>14 DEF Copied
  <1>16. \A f \in TablesOf(root) : mem'[f] = mem[f]  BY <1>4, <1>15 DEF SameApart
  <1>17. TablesOf(old)' = apart
    <2>1. {TableAt(mem', root, virt, n) : virt \in Addresses, n \in 0 .. 3} \ {None} = apart
      BY <1>4, <1>16, UntouchedSpace
    <2> QED  BY <1>14, <2>1 DEF TablesOf
  <1>18. CloneInv'
    <2>1. SpaceInv(TablesOf(old))'  BY <1>15, <1>17 DEF SpaceInv
    <2>2. old' # NULL  BY <1>5, <1>14, FramesAssumption
    <2> QED  BY <1>1, <2>1, <2>2 DEF CloneInv
  <1>19. /\ Leaves(mem', root') = Leaves(mem, root)
         /\ \A page \in Leaves(mem, root) : PageEntry(mem', root', page) = PageEntry(mem, root, page)
    BY <1>7, <1>15, <1>e, <1>p, LeavesMapped
  <1> QED  BY <1>16, <1>18, <1>19

\* From then on the kernel's steps leave the old address space alone.
LEMMA AfterClone ==
    ASSUME CloneInv, old # NULL, CarefulMap \/ CarefulUnmap, UNCHANGED old
    PROVE  CloneInv' /\ \A f \in TablesOf(old) : mem'[f] = mem[f]
  <1>a. PICK apart : apart = TablesOf(old)  OBVIOUS
  <1>1. SpaceInv(apart) /\ FramesForTwo /\ Dirty = FALSE  BY <1>a DEF CloneInv
  <1>4. ASSUME \A f \in TablesOf(old) : mem'[f] = mem[f] PROVE TablesOf(old)' = TablesOf(old)
    <2>1. {TableAt(mem', old, virt, n) : virt \in Addresses, n \in 0 .. 3} \ {None} = TablesOf(old)
      BY <1>4, UntouchedSpace
    <2>2. old' = old  OBVIOUS
    <2> QED  BY <2>1, <2>2 DEF TablesOf
  <1>2. CASE CarefulMap
    <2>1. PICK page \in Pages, phys \in DataFrames :
            /\ \A q \in MappedPages : ~Inside(page, q)
            /\ TablesNeeded(page) <= Cardinality(free)
            /\ MapPage(page, phys, Len(page) < 4)
      BY <1>2 DEF CarefulMap
    <2>2. SpaceInv(apart)' /\ SameApart(mem, mem', apart)  BY <1>1, <2>1, CarefulMapStep
    <2>3. \A f \in TablesOf(old) : mem'[f] = mem[f]  BY <1>a, <2>2 DEF SameApart
    <2>4. TablesOf(old)' = apart  BY <1>a, <1>4, <2>3
    <2> QED  BY <1>1, <2>2, <2>3, <2>4 DEF CloneInv, SpaceInv
  <1>3. CASE CarefulUnmap
    <2>1. PICK page \in Pages :
            /\ \A q \in MappedPages : ~Inside(page, q) /\ ~Inside(q, page)
            /\ UnmapPage(page)
      BY <1>3 DEF CarefulUnmap
    <2>2. SpaceInv(apart)' /\ SameApart(mem, mem', apart)  BY <1>1, <2>1, CarefulUnmapStep
    <2>3. \A f \in TablesOf(old) : mem'[f] = mem[f]  BY <1>a, <2>2 DEF SameApart
    <2>4. TablesOf(old)' = apart  BY <1>a, <1>4, <2>3
    <2> QED  BY <1>1, <2>2, <2>3, <2>4 DEF CloneInv, SpaceInv
  <1> QED  BY <1>2, <1>3

\* What the bootloader has built is a tree, and the frame the PMM gives next is zero.
LEMMA CloneInvInit == FramesForTwo /\ Dirty = FALSE /\ CloneInit => CloneInv
  <1> SUFFICES ASSUME FramesForTwo, Dirty = FALSE, CloneInit PROVE CloneInv
    OBVIOUS
  <1>m. PICK m0 : m0 = [f \in Frames |-> EmptyTable]  OBVIOUS
  <1>s. PICK s0 : s0 = [mem |-> m0, free |-> TableFrames \ {root}]  OBVIOUS
  <1>1. root \in TableFrames /\ old = NULL
    BY FramesAssumption DEF CloneInit, PmmAlloc
  <1>2. PICK pages \in SUBSET Pages : \E phys \in [pages -> DataFrames], dirty \in {FALSE, Dirty} :
          /\ \A p, q \in pages : ~Inside(p, q)
          /\ Loaded(MapAll([mem |-> m0, free |-> TableFrames \ {root}], root, Walk(pages), phys), dirty)
    BY <1>m, Zenon DEF CloneInit
  <1>3. PICK phys \in [pages -> DataFrames], dirty \in {FALSE, Dirty} :
          /\ \A p, q \in pages : ~Inside(p, q)
          /\ Loaded(MapAll([mem |-> m0, free |-> TableFrames \ {root}], root, Walk(pages), phys), dirty)
    BY <1>2
  <1>4. PICK s : s = MapAll(s0, root, Walk(pages), phys)  OBVIOUS
  <1>5. Separate(pages) /\ Loaded(s, FALSE)
    <2>1. dirty = FALSE  BY <1>3
    <2> QED  BY <1>3, <1>4, <1>s, <2>1, Zenon DEF Separate
  <1>e. PICK entry : entry = [page \in pages |-> EntryFor(phys[page], Len(page) < 4)]  OBVIOUS
  <1>6. ASSUME NEW page \in pages
        PROVE  /\ entry[page].base = phys[page] /\ entry[page].page_size = (Len(page) < 4)
               /\ entry[page] \in Entries /\ IsPage(Len(page), entry[page])
    <2>1. entry[page] = EntryFor(phys[page], Len(page) < 4)  BY <1>e
    <2>2. phys[page] \in Frames /\ (Len(page) < 4) \in BOOLEAN /\ page \in Pages  BY FrameFacts
    <2>3. EntryFor(phys[page], Len(page) < 4) \in Entries  BY <2>2, EntryFacts, Zenon
    <2>4. /\ EntryFor(phys[page], Len(page) < 4).base = phys[page]
          /\ EntryFor(phys[page], Len(page) < 4).page_size = (Len(page) < 4)
      BY EntryFacts, Zenon
    <2>5. IsPage(Len(page), EntryFor(phys[page], Len(page) < 4))
      <3>1. Len(page) \in 2 .. 4  BY <2>2, PageFacts
      <3> QED  BY <3>1, LeafIsPage
    <2> QED  BY <2>1, <2>3, <2>4, <2>5
  <1>7. Target(pages, entry)
    <2>1. \A page \in pages : entry[page].base \in DataFrames  BY <1>6
    <2> QED  BY <1>5, <1>6, <2>1 DEF Target
  <1>8. /\ IsFiniteSet(Pages)
        /\ Cardinality(TablesFor(Pages)) + Cardinality({}) <= Cardinality(TableFrames)
    <2>1. /\ IsFiniteSet(Pages) /\ 2 * Cardinality(TablesFor(Pages)) <= Cardinality(TableFrames)
      BY DEF FramesForTwo
    <2>2. Cardinality(TablesFor(Pages)) \in Nat /\ Cardinality(TableFrames) \in Nat
      BY <2>1, PlacesFacts, FramesAssumption, FS_CardinalityType
    <2>3. Cardinality({}) = 0  BY FS_EmptySet
    <2> QED  BY <2>1, <2>2, <2>3
  <1>9. PICK N \in Nat : N = Cardinality(pages) /\ N = Len(Walk(pages)) /\ Walk(pages) \in [1 .. N -> pages]
    <2>1. pages \subseteq Paths  BY PagesAssumption DEF Paths
    <2>2. IsFiniteSet(pages)  BY <1>8, FS_Subset
    <2> QED  BY <1>5, <2>1, <2>2, WalkFacts
  <1>10. PICK after : /\ after[0] = s0
                      /\ \A n \in 0 .. N - 1 :
                           after[n + 1] = MapOne(after[n], root, Walk(pages)[n + 1], phys[Walk(pages)[n + 1]])
                      /\ s = after[N]
    BY <1>4, <1>9, MapAllIs
  <1>11. EmptyTable \in [Index -> Entries] /\ StaleTable \in [Index -> Entries]
    <2>1. NULL \in Frames  BY DEF Frames
    <2> QED  BY <2>1, EntryFacts DEF StaleTable, EmptyTable
  <1>12. Copied(m0, after[0], root, {}, {}, entry)
    <2>1. /\ m0 \in Memories /\ m0[root] = EmptyTable
          /\ (TableFrames \ {root}) \union {} = TableFrames \ {root}
          /\ (TableFrames \ {root}) \cap {} = {}
      BY <1>1, <1>11, <1>m, FrameFacts DEF Memories
    <2>2. /\ TreeBeside(m0, root, TableFrames \ {root}, {}) /\ NoneEmptyBut(m0, root, root)
          /\ MapsExactly(m0, root, {}, entry)
      BY <1>1, <2>1, FreshTree
    <2>3. s0.mem = m0 /\ s0.free = TableFrames \ {root}  BY <1>s
    <2> QED  BY <1>10, <2>2, <2>3 DEF Copied, SameApart
  <1>13. MapsEach(m0, after, N, root, {}, Walk(pages), entry)
    <2> SUFFICES ASSUME NEW n \in 0 .. N - 1,
                        NEW page, page = Walk(pages)[n + 1],
                        NEW d, d = Mapped(after[n], root, page, entry[page].base, entry[page].page_size)
                 PROVE  after[n + 1] = [mem |-> d.mem, free |-> d.free]
      BY DEF MapsEach
    <2>1. page \in pages
      <3>1. n + 1 \in 1 .. N  BY <1>9
      <3> QED  BY <1>9, <3>1
    <2>2. d = Mapped(after[n], root, page, phys[page], Len(page) < 4)  BY <1>6, <2>1
    <2>3. after[n + 1] = MapOne(after[n], root, page, phys[page])  BY <1>10
    <2> QED  BY <2>2, <2>3 DEF MapOne
  <1>14. Copied(m0, s, root, {}, pages, entry)
    BY <1>7, <1>8, <1>9, <1>10, <1>12, <1>13, WalkDone
  <1>15. TreeBeside(s.mem, root, s.free, {}) /\ NoneEmptyBut(s.mem, root, root)
    BY <1>14 DEF Copied
  <1>16. free = s.free  BY <1>5 DEF Loaded
  <1>17. \A f \in Frames : mem[f] = IF f \notin s.free THEN s.mem[f]
                                    ELSE IF f = PmmAlloc(s.free) THEN EmptyTable ELSE StaleTable
    BY <1>5 DEF Loaded
  <1>18. mem \in Memories
    <2>1. \A f \in Frames : s.mem[f] \in [Index -> Entries]  BY <1>15, BesideFacts DEF Memories
    <2>2. \A f \in Frames : mem[f] \in [Index -> Entries]  BY <1>11, <1>17, <2>1
    <2>3. DOMAIN mem = Frames /\ mem = [f \in Frames |-> mem[f]]  BY <1>5 DEF Loaded
    <2> QED  BY <2>2, <2>3 DEF Memories
  <1>19. SpaceInv({})
    <2>1. \A f \in TableFrames \ (s.free \union {}) : mem[f] = s.mem[f]  BY <1>17, FrameFacts
    <2> QED  BY <1>16, <1>15, <1>18, <2>1, SameTree DEF SpaceInv
  <1>20. mem[PmmAlloc(free)] = EmptyTable
    <2>1. free # {} /\ free \subseteq Frames
      <3>1. TreeBeside(mem, root, free, {}) /\ NoneEmptyBut(mem, root, root)  BY <1>19 DEF SpaceInv
      <3> QED  BY <3>1, HalfSuffices, BesideFacts, FrameFacts
    <2>2. PmmAlloc(free) \in free  BY <2>1 DEF PmmAlloc
    <2> QED  BY <1>16, <1>17, <2>1, <2>2
  <1> QED  BY <1>1, <1>19, <1>20 DEF CloneInv

\* What a step of the clone's specification does.
LEMMA CloneStepFacts ==
    ASSUME CloneInv, [CloneNext]_cloneVars
    PROVE  /\ CloneInv'
           /\ \A f \in TablesOf(IF old = NULL THEN root ELSE old) : mem'[f] = mem[f]
           /\ Clone => /\ Leaves(mem', root') = Leaves(mem, root)
                       /\ \A page \in Leaves(mem, root) :
                            PageEntry(mem', root', page) = PageEntry(mem, root, page)
  <1>1. CASE Clone
    <2>1. old = NULL  BY <1>1 DEF Clone
    <2> QED  BY <1>1, <2>1, CloneStep
  <1>2. CASE old # NULL /\ (CarefulMap \/ CarefulUnmap) /\ UNCHANGED old
    <2>1. ~Clone  BY <1>2 DEF Clone
    <2> QED  BY <1>2, <2>1, AfterClone
  <1>3. CASE UNCHANGED cloneVars /\ ~Clone
    <2>1. mem' = mem /\ free' = free /\ root' = root /\ old' = old  BY <1>3 DEF cloneVars
    <2>2. CloneInv'  BY <2>1 DEF CloneInv, SpaceInv, TablesOf
    <2> QED  BY <1>3, <2>1, <2>2
  <1> QED  BY <1>1, <1>2, <1>3 DEF CloneNext

\* With frames for two address spaces, the next of which is zero, the invariant
\* holds in every state before and after the clone.
THEOREM CloneInvariant == FramesForTwo /\ Dirty = FALSE /\ CloneSpec => []CloneInv
  <1>1. CloneInv /\ [CloneNext]_cloneVars => CloneInv'  BY CloneStepFacts
  <1> QED  BY <1>1, CloneInvInit, PTL DEF CloneSpec

\* paging_clone_page_table maps what the bootloader mapped: every page, by an entry
\* with the same frame and size, and no other page.
THEOREM CloneMapsAlwaysTheSame == FramesForTwo /\ Dirty = FALSE /\ CloneSpec => CloneMapsTheSame
  <1>1. CloneInv /\ [CloneNext]_cloneVars =>
          [Clone => /\ Leaves(mem', root') = Leaves(mem, root)
                    /\ \A page \in Leaves(mem, root) :
                         PageEntry(mem', root', page) = PageEntry(mem, root, page)]_cloneVars
    BY CloneStepFacts
  <1> QED  BY <1>1, CloneInvariant, PTL DEF CloneSpec, CloneMapsTheSame

\* Neither the clone nor any later paging_map_page or paging_unmap_page writes to a
\* table of the old address space.
THEOREM OldSpaceNeverTouched == FramesForTwo /\ Dirty = FALSE /\ CloneSpec => OldSpaceUntouched
  <1>1. CloneInv /\ [CloneNext]_cloneVars =>
          [\A f \in TablesOf(IF old = NULL THEN root ELSE old) : mem'[f] = mem[f]]_cloneVars
    BY CloneStepFacts
  <1> QED  BY <1>1, CloneInvariant, PTL DEF CloneSpec, OldSpaceUntouched

\* The two address spaces share no table, and every frame the PMM has given out is
\* a table of the one or the other.
THEOREM TablesAlwaysOfTwo == FramesForTwo /\ Dirty = FALSE /\ CloneSpec => []TablesOfTwo
  <1>1. ASSUME CloneInv, old # NULL
        PROVE  /\ TablesOf(root) \union TablesOf(old) = TableFrames \ free
               /\ TablesOf(root) \cap TablesOf(old) = {}
    <2>a. PICK apart : apart = TablesOf(old)  OBVIOUS
    <2>1. SpaceInv(apart)  BY <1>1, <2>a DEF CloneInv
    <2>2. TablesOf(root) = TableFrames \ (free \union apart)  BY <2>1, TablesAre
    <2>3. apart \subseteq TableFrames /\ free \cap apart = {}
      BY <2>1, BesideFacts DEF SpaceInv, TreeBeside
    <2> QED  BY <2>2, <2>3, <2>a
  <1>2. CloneInv => TablesOfTwo  BY <1>1 DEF TablesOfTwo
  <1> QED  BY <1>2, CloneInvariant, PTL

==============================================================================
