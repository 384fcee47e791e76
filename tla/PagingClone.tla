------------------------------ MODULE PagingClone ------------------------------
(***************************************************************************)
(* paging_clone_page_table: kmain copies the address space the bootloader  *)
(* built into tables of its own and loads the copy into CR3.  It runs      *)
(* before interrupts are enabled, so nothing interleaves with the walk.    *)
(***************************************************************************)
EXTENDS Paging

CONSTANT Dirty    \* may the frame the new PML4 gets hold stale words?

ASSUME DirtyAssumption == Dirty \in BOOLEAN
ASSUME OrderAssumption == Index \subseteq Nat

VARIABLE old      \* the bootloader's PML4, NULL before the clone

cloneVars == <<mem, free, root, tlb, status, old>>

Paths == UNION {[1 .. n -> Index] : n \in 2 .. 4}

\* The pages an address space maps.
Leaves(m, pml4) == {page \in Paths : IsPage(Len(page), PageEntry(m, pml4, page))}

\* The order of the walk: by the first index in which two pages differ.
WalkedBefore(p, q) ==
    \E n \in 1 .. 4 : /\ n <= Len(p) /\ n <= Len(q)
                      /\ \A k \in 1 .. n - 1 : p[k] = q[k]
                      /\ p[n] < q[n]

Walk(pages) == CHOOSE walk \in [1 .. Cardinality(pages) -> pages] :
                   \A j, k \in DOMAIN walk : j < k => WalkedBefore(walk[j], walk[k])

\* Plausible bug: the page size flag is lost on the way.
CopyPage_LosesSize(s, source, new, page) ==
    LET r == Mapped(s, new, page, PageEntry(s.mem, source, page).base, FALSE)
    IN  [mem |-> r.mem, free |-> r.free]

\* Each page is mapped into the new tables with its own size and flags; what
\* paging_map_page_without_tlb_invalidation returns is ignored.
CopyPage(s, source, new, page) ==
    LET entry == PageEntry(s.mem, source, page)
        r == Mapped(s, new, page, entry.base, entry.page_size)
    IN  [mem |-> r.mem, free |-> r.free]

\* The whole walk.
CopyPages(s, source, new, walk) ==
    LET after[n \in 0 .. Len(walk)] ==
            IF n = 0 THEN s ELSE CopyPage(after[n - 1], source, new, walk[n])
    IN  after[Len(walk)]

\* Plausible bug: only the PML4 is copied, so both share the tables below.
Clone_Shallow ==
    /\ old = NULL
    /\ mem' = [mem EXCEPT ![PmmAlloc(free)] = mem[root]]
    /\ free' = free \ {PmmAlloc(free)}
    /\ root' = PmmAlloc(free)
    /\ old' = root
    /\ tlb' = {}
    /\ status' = PAGING_OK

\* The new PML4 is not zeroed.
Clone ==
    LET new == PmmAlloc(free)
        s == CopyPages([State EXCEPT !.free = free \ {new}], root, new, Walk(Leaves(mem, root)))
    IN  /\ old = NULL
        /\ mem' = s.mem
        /\ free' = s.free
        /\ root' = new
        /\ old' = root
        /\ tlb' = {}
        /\ status' = PAGING_OK

\* Any address space the bootloader can build from Pages, in frames the PMM
\* does not manage; the frames it does manage hold stale words.
MapAll(s, pml4, walk, phys) ==
    LET after[n \in 0 .. Len(walk)] ==
            IF n = 0 THEN s
            ELSE LET r == Mapped(after[n - 1], pml4, walk[n], phys[walk[n]], Len(walk[n]) < 4)
                 IN  [mem |-> r.mem, free |-> r.free]
    IN  after[Len(walk)]

\* The PMM hands out a zeroed frame next unless dirty; its others hold stale words.
Loaded(s, dirty) ==
    /\ free = s.free
    /\ mem = [f \in Frames |-> IF f \notin s.free THEN s.mem[f]
                               ELSE IF f = PmmAlloc(s.free) /\ ~dirty THEN EmptyTable
                               ELSE StaleTable]

CloneInit ==
    /\ root = PmmAlloc(TableFrames)
    /\ \E pages \in SUBSET Pages : \E phys \in [pages -> DataFrames], dirty \in {FALSE, Dirty} :
         /\ \A p, q \in pages : ~Inside(p, q)
         /\ Loaded(MapAll([mem |-> [f \in Frames |-> EmptyTable], free |-> TableFrames \ {root}],
                          root, Walk(pages), phys), dirty)
    /\ tlb = {}
    /\ status = PAGING_OK
    /\ old = NULL

\* After the clone the kernel maps and unmaps pages in its own address space.
CloneNext == Clone \/ (old # NULL /\ (CarefulMap \/ CarefulUnmap) /\ UNCHANGED old)

CloneSpec == CloneInit /\ [][CloneNext]_cloneVars

\* The PML4 and one table for every beginning of a page.
TablesFor(pages) ==
    {<<>>} \union UNION {{[k \in 1 .. n |-> page[k]] : n \in 1 .. Len(page) - 1} : page \in pages}

\* The PMM has the frames for the tables of two address spaces.
FramesForTwo == /\ IsFiniteSet(Pages)
                /\ 2 * Cardinality(TablesFor(Pages)) <= Cardinality(TableFrames)

-----------------------------------------------------------------------------
(* Properties.                                                             *)

\* The clone maps what the bootloader mapped: the same pages, of the same
\* sizes, to the same frames.
CloneMapsTheSame ==
    [][Clone => /\ Leaves(mem', root') = Leaves(mem, root)
                /\ \A page \in Leaves(mem, root) :
                     PageEntry(mem', root', page) = PageEntry(mem, root, page)]_cloneVars

\* Every frame taken from the PMM is a table of the one or of the other address
\* space: none is shared, and none is lost by the walk or by what follows it.
TablesOfTwo == old # NULL => /\ TablesOf(root) \union TablesOf(old) = TableFrames \ free
                             /\ TablesOf(root) \cap TablesOf(old) = {}

\* The tables of the old address space are written to neither by the clone nor
\* by what follows it: the bootloader's memory can be reclaimed, and changes of
\* the one address space do not show in the other.
OldSpaceUntouched ==
    [][\A f \in TablesOf(IF old = NULL THEN root ELSE old) : mem'[f] = mem[f]]_cloneVars

==============================================================================
