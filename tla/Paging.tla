-------------------------------- MODULE Paging --------------------------------
(***************************************************************************)
(* Four-level page tables: kernel/src/memory/paging.c.                     *)
(*                                                                         *)
(* RAM is mem: for every frame what its words are when they are read as    *)
(* page table entries, whether the frame is a table or data.  A virtual    *)
(* page is the sequence of its table indices (two for 1 GB, three for      *)
(* 2 MB, four for 4 kB).  Of an entry the model keeps the base, the        *)
(* present bit (an entry that is not present is Absent: no other field of  *)
(* it is ever read) and the page size bit.                                 *)
(*                                                                         *)
(* The kernel thread is the only caller; the processor fills its TLB at    *)
(* any time.                                                               *)
(***************************************************************************)
EXTENDS Integers, FiniteSets, Sequences, SequencesExt

CONSTANTS Index,         \* indices of the entries of a table (0 .. 511)
          TableFrames,   \* frames the PMM has to give
          DataFrames,    \* frames callers map
          Pages          \* virtual pages callers map and unmap

NULL == 0

Frames == TableFrames \union DataFrames \union {NULL}

ASSUME FramesAssumption == /\ TableFrames \subseteq Nat \ {NULL}
                           /\ DataFrames \subseteq Nat \ {NULL}
                           /\ TableFrames \cap DataFrames = {}
                           /\ TableFrames # {} /\ IsFiniteSet(TableFrames)
ASSUME IndexAssumption == 0 \in Index
ASSUME PagesAssumption == Pages \subseteq UNION {[1 .. n -> Index] : n \in 2 .. 4}

VARIABLES mem,     \* contents of the frames, read as tables
          free,    \* frames the PMM has left
          root,    \* the PML4 the operations are given, and CR3 holds
          tlb,     \* translations the processor has cached
          status   \* what the last operation returned

vars == <<mem, free, root, tlb, status>>

PAGING_OK == "ok"
PAGING_ERROR == "error"

Absent == [present |-> FALSE]
EntryFor(frame, page_size) == [present |-> TRUE, base |-> frame, page_size |-> page_size]
Entries == {Absent} \union {EntryFor(f, b) : f \in Frames, b \in BOOLEAN}
EmptyTable == [i \in Index |-> Absent]

\* An entry of a PDPR or PD whose page size bit is set and every entry of a PT
\* is a page.  Level 1 is the PML4, level 4 a PT.
IsPage(level, entry) == entry.present /\ (level = 4 \/ (level > 1 /\ entry.page_size))

-----------------------------------------------------------------------------
(* Walking the tables, from the PML4 (0 indices followed) to a PT (3).     *)

None == -1

\* The table an entry leads to, if it is neither absent nor a page.
Below(level, entry) == IF entry.present /\ ~IsPage(level, entry) THEN entry.base ELSE None

EntryIn(m, table, index) == IF table = None THEN Absent ELSE m[table][index]

\* The table that the first n indices of a page or an address lead to.
TableAt(m, pml4, virt, n) ==
    LET pdpr == Below(1, EntryIn(m, pml4, virt[1]))
        pd == Below(2, EntryIn(m, pdpr, virt[2]))
        pt == Below(3, EntryIn(m, pd, virt[3]))
    IN  CASE n = 0 -> pml4 [] n = 1 -> pdpr [] n = 2 -> pd [] n = 3 -> pt

\* The entry of the n-th level.
EntryAt(m, pml4, virt, n) == EntryIn(m, TableAt(m, pml4, virt, n - 1), virt[n])

PageEntry(m, pml4, page) == EntryAt(m, pml4, page, Len(page))

\* Plausible bug: large pages are followed like tables.
Resolve_IgnoresSize(m, pml4, virt) ==
    LET pt == EntryAt(m, pml4, virt, 4) IN IF pt.present THEN pt.base ELSE NULL

\* paging_resolve_virtual_address for the address with these four indices.
Resolve(m, pml4, virt) ==
    CASE IsPage(2, EntryAt(m, pml4, virt, 2)) -> EntryAt(m, pml4, virt, 2).base
      [] IsPage(3, EntryAt(m, pml4, virt, 3)) -> EntryAt(m, pml4, virt, 3).base
      [] IsPage(4, EntryAt(m, pml4, virt, 4)) -> EntryAt(m, pml4, virt, 4).base
      [] OTHER -> NULL

-----------------------------------------------------------------------------
(* paging_map_page and paging_unmap_page as functions of memory and pool.  *)

State == [mem |-> mem, free |-> free]

\* pmm_alloc; which free frame it takes is irrelevant, they are alike.
PmmAlloc(pool) == IF pool = {} THEN NULL ELSE CHOOSE f \in pool : TRUE

\* Plausible bug: a new table is not zeroed.
Descend_NotZeroed(s, index) ==
    LET entry == s.mem[s.table][index]
        new == PmmAlloc(s.free)
    IN  IF entry.present THEN [s EXCEPT !.table = entry.base]
        ELSE [mem |-> [s.mem EXCEPT ![s.table][index] = EntryFor(new, FALSE)],
              free |-> s.free \ {new},
              table |-> new]

\* One level of paging_map_page: follow the entry, or make a table and enter it.
\* That pmm_alloc failed goes unnoticed, since the HHDM offset is added before
\* the result is compared with NULL; and a page is followed like a table.
Descend(s, index) ==
    LET entry == s.mem[s.table][index]
        new == PmmAlloc(s.free)
    IN  IF entry.present THEN [s EXCEPT !.table = entry.base]
        ELSE [mem |-> [s.mem EXCEPT ![new] = EmptyTable,
                                    ![s.table][index] = EntryFor(new, FALSE)],
              free |-> s.free \ {new},
              table |-> new]

\* The table a page is entered into, made with those above it where they are missing.
DescendTo(s, pml4, page) ==
    LET pdpr == Descend([mem |-> s.mem, free |-> s.free, table |-> pml4], page[1])
        pd == Descend(pdpr, page[2])
        pt == Descend(pd, page[3])
    IN  CASE Len(page) = 2 -> pdpr [] Len(page) = 3 -> pd [] Len(page) = 4 -> pt

\* paging_map_page_without_tlb_invalidation; page_size is the bit in the flags.
Mapped(s, pml4, page, phys, page_size) ==
    LET d == DescendTo(s, pml4, page)
        used == d.mem[d.table][Last(page)].present
    IN  [mem |-> IF used THEN d.mem
                 ELSE [d.mem EXCEPT ![d.table][Last(page)] = EntryFor(phys, page_size)],
         free |-> d.free,
         status |-> IF used THEN PAGING_ERROR ELSE PAGING_OK]

\* Plausible bug: the search for a present entry stops at the first entry.
CheckForEmptyTable_FirstOnly(s, table, parent, index) ==
    IF s.mem[table][0].present THEN s
    ELSE [mem |-> [s.mem EXCEPT ![parent][index] = Absent], free |-> s.free \union {table}]

\* Plausible bug: the frame of the empty table is not given back.
CheckForEmptyTable_NotFreed(s, table, parent, index) ==
    IF \E i \in Index : s.mem[table][i].present THEN s
    ELSE [s EXCEPT !.mem[parent][index] = Absent]

\* paging_check_for_empty_table.
CheckForEmptyTable(s, table, parent, index) ==
    IF \E i \in Index : s.mem[table][i].present THEN s
    ELSE [mem |-> [s.mem EXCEPT ![parent][index] = Absent], free |-> s.free \union {table}]

\* paging_unmap_page goes down through every present entry.
Entered(m, table, index) ==
    IF EntryIn(m, table, index).present THEN m[table][index].base ELSE None

\* Plausible bug: unmapping a page frees the frame it was mapped to.
ClearLeaf_FreesPage(s, table, index) ==
    [mem |-> [s.mem EXCEPT ![table][index] = Absent],
     free |-> s.free \union (IF s.mem[table][index].present
                             THEN {s.mem[table][index].base} ELSE {})]

\* The present bit of the page's entry is cleared.
ClearLeaf(s, table, index) == [s EXCEPT !.mem[table][index] = Absent]

\* The page's table and those above it are checked for emptiness, from the lowest.
CheckTables(s, pml4, pdpr, pd, pt, page) ==
    LET n == Len(page)
        pt_checked == IF n < 4 THEN s ELSE CheckForEmptyTable(s, pt, pd, page[3])
        pd_checked == IF n < 3 THEN pt_checked ELSE CheckForEmptyTable(pt_checked, pd, pdpr, page[2])
    IN  CheckForEmptyTable(pd_checked, pdpr, pml4, page[1])

\* paging_unmap_page: only the entries of PML4, PDPR and PD are tested.
Unmapped(s, pml4, page) ==
    LET n == Len(page)
        pdpr == Entered(s.mem, pml4, page[1])
        pd == Entered(s.mem, pdpr, page[2])
        pt == Entered(s.mem, pd, page[3])
        table == CASE n = 2 -> pdpr [] n = 3 -> pd [] n = 4 -> pt
        error == table = None \/ (n < 4 /\ ~s.mem[table][page[n]].present)
        checked == CheckTables(ClearLeaf(s, table, page[n]), pml4, pdpr, pd, pt, page)
    IN  IF error THEN [mem |-> s.mem, free |-> s.free, status |-> PAGING_ERROR]
        ELSE [mem |-> checked.mem, free |-> checked.free, status |-> PAGING_OK]

\* Plausible bug: no entry is dropped.
InvalidateTlb_None(page) == tlb

\* The address callers name a page by, its first.
AddressOf(page) == [n \in 1 .. 4 |-> IF n <= Len(page) THEN page[n] ELSE 0]

\* invalidate_tlb: invlpg drops what translates this one address, so of what is cached
\* inside a large page only what lies at its beginning.
InvalidateTlb(page) == {t \in tlb : ~IsPrefix(t.page, AddressOf(page))}

-----------------------------------------------------------------------------
(* Actions.                                                                *)

\* The operations take any PML4; this one is empty at first (PagingClone starts
\* from the bootloader's).  Frames the PMM has not given out yet hold anything,
\* here words that read as present entries.
StaleTable == [i \in Index |-> EntryFor(NULL, FALSE)]

Init == /\ root = PmmAlloc(TableFrames)
        /\ free = TableFrames \ {root}
        /\ mem = [f \in Frames |-> IF f \in free THEN StaleTable ELSE EmptyTable]
        /\ tlb = {}
        /\ status = PAGING_OK

MapPage(page, phys, page_size) ==
    LET r == Mapped(State, root, page, phys, page_size)
    IN  /\ mem' = r.mem
        /\ free' = r.free
        /\ status' = r.status
        /\ tlb' = IF r.status = PAGING_OK THEN InvalidateTlb(page) ELSE tlb
        /\ UNCHANGED root

UnmapPage(page) ==
    LET r == Unmapped(State, root, page)
    IN  /\ mem' = r.mem
        /\ free' = r.free
        /\ status' = r.status
        /\ tlb' = IF r.status = PAGING_OK THEN InvalidateTlb(page) ELSE tlb
        /\ UNCHANGED root

\* The processor caches a translation it finds in the tables.
TlbFill == \E page \in Pages :
    LET entry == PageEntry(mem, root, page)
    IN  /\ IsPage(Len(page), entry)
        /\ tlb' = tlb \union {[page |-> page, phys |-> entry.base]}
        /\ UNCHANGED <<mem, free, root, status>>

-----------------------------------------------------------------------------
(* Callers.  Careful ones set the page size bit for large pages, do not map *)
(* below a large page, unmap with the size they mapped with, and leave the  *)
(* PMM enough frames for the tables.                                        *)

MappedPages == {page \in Pages : IsPage(Len(page), PageEntry(mem, root, page))}

Inside(p, q) == IsStrictPrefix(q, p)

TablesNeeded(page) ==
    Cardinality({n \in 1 .. Len(page) - 1 : TableAt(mem, root, page, n) = None})

CarefulMap == \E page \in Pages, phys \in DataFrames :
    /\ \A q \in MappedPages : ~Inside(page, q)
    /\ TablesNeeded(page) <= Cardinality(free)
    /\ MapPage(page, phys, Len(page) < 4)

CarefulUnmap == \E page \in Pages :
    /\ \A q \in MappedPages : ~Inside(page, q) /\ ~Inside(q, page)
    /\ UnmapPage(page)

Next == CarefulMap \/ CarefulUnmap \/ TlbFill

Spec == Init /\ [][Next]_vars

-----------------------------------------------------------------------------
(* Properties.                                                             *)

Addresses == [1 .. 4 -> Index]

TablesOf(pml4) == {TableAt(mem, pml4, virt, n) : virt \in Addresses, n \in 0 .. 3} \ {None}

\* No table serves two places of the address space, so that changing one
\* translation never changes another.
TablesFormTree ==
    \A v \in Addresses, j \in 0 .. 3 : TableAt(mem, root, v, j) # None =>
      \A w \in Addresses, k \in 0 .. 3 : TableAt(mem, root, v, j) = TableAt(mem, root, w, k)
        => j = k /\ \A n \in 1 .. j : v[n] = w[n]

\* paging_unmap_page gives every table back when its last entry is cleared and
\* no earlier, whatever the order of the unmappings: each frame taken from the
\* PMM is a table in use, and no table but the PML4 is empty.
TablesAccounted ==
    /\ TablesOf(root) = TableFrames \ free
    /\ \A table \in TablesOf(root) \ {root} : \E i \in Index : mem[table][i].present

\* The processor never goes on using a translation that was removed.
TlbCoherent == \A t \in tlb : LET entry == PageEntry(mem, root, t.page)
                              IN  IsPage(Len(t.page), entry) /\ entry.base = t.phys

\* Frames that are mapped as data are never written as if they were tables.
DataUntouched == [][\A f \in DataFrames : mem'[f] = mem[f]]_vars

\* What callers see is a partial function from pages to frames.
Space == INSTANCE AddressSpace
           WITH Data <- DataFrames,
                mapping <- [page \in MappedPages |-> PageEntry(mem, root, page).base]

\* Mapping and unmapping change the one page they are given and no other.
ImplementsAddressSpace == Space!Spec

\* paging_resolve_virtual_address finds the page that contains an address.
ResolveAgrees ==
    \A page \in MappedPages : \A virt \in Addresses :
        IsPrefix(page, virt) => Resolve(mem, root, virt) = PageEntry(mem, root, page).base
==============================================================================
