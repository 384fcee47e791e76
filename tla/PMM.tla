--------------------------------- MODULE PMM ---------------------------------
(***************************************************************************)
(* The physical memory manager: kernel/src/memory/pmm.c and pmm_region.c.  *)
(*                                                                         *)
(* Addresses are page-frame numbers, so PAGE_SIZE_BYTE occurs only where   *)
(* pmm_init computes the room its own data needs.  The kernel thread is    *)
(* the only caller (the interrupt handlers allocate nothing), hence the    *)
(* operations do not overlap, but pmm_alloc is split at the iterations of  *)
(* its loop over the regions: what an iteration leaves in the static       *)
(* caches decides where the next one looks.                                *)
(*                                                                         *)
(* The initial states are those pmm_init leaves for a memory map on which  *)
(* it succeeds; kmain halts on the others.                                 *)
(***************************************************************************)
EXTENDS Integers, FiniteSets

CONSTANTS NumRegions,     \* pmm_num_regions
          MemoryMaps,     \* the memory maps Limine may pass
          BitsPerByte,    \* pages described by one byte of a bitmap (8)
          PageSize,       \* PAGE_SIZE_BYTE
          StructSize,     \* sizeof(struct pmm_region_t)
          MaxFreePages    \* bound on free_pages under careless callers

Regions == 0 .. NumRegions - 1

Entry == [base : Nat, length : Nat \ {0}, usable : BOOLEAN]

\* Limine sorts the entries by base; usable memory never overlaps anything and
\* never includes frame 0.
IsMemoryMap(map) ==
    /\ map \in [Regions -> Entry]
    /\ \A r, s \in Regions : r < s => map[r].base + map[r].length <= map[s].base
    /\ \A r \in Regions : map[r].usable => map[r].base > 0

ASSUME NumRegionsAssumption == NumRegions \in Nat \ {0}
ASSUME MemoryMapsAssumption == \A map \in MemoryMaps : IsMemoryMap(map)
ASSUME SizesAssumption == /\ BitsPerByte \in Nat \ {0}
                          /\ PageSize \in Nat \ {0}
                          /\ StructSize \in Nat \ {0}
                          /\ MaxFreePages \in Nat

NULL == 0

VARIABLES
    memmap,         \* the memory map, i.e. base, length and type of pmm_regions[]
    bitmap,         \* bitmap[r]: numbers of the bits that are set (USED)
    free_pages,     \* free_pages of each region
    region_cache,   \* static region_cache of pmm_alloc
    bitmap_cache,   \* static bitmap_cache of pmm_alloc
    scan,           \* the loop counter i while pmm_alloc runs, otherwise Idle
    ptr,            \* what the last pmm_alloc returned
    held            \* history: pages handed out and not given back

vars == <<memmap, bitmap, free_pages, region_cache, bitmap_cache, scan, ptr, held>>

Idle == NumRegions + 1

CeilDiv(a, b) == (a + b - 1) \div b

-----------------------------------------------------------------------------
(* Regions and their bitmaps (pmm_region.c).                               *)

BitmapSize(map, r) == CeilDiv(map[r].length, BitsPerByte)

\* Every bit the bitmap has room for, those beyond the last page included.
Bits(map, r) == 0 .. BitmapSize(map, r) * BitsPerByte - 1

ByteBits(byte) == byte * BitsPerByte .. byte * BitsPerByte + BitsPerByte - 1

FrameOf(r, page) == memmap[r].base + page

\* The bounds test of both pmm_region_mark_page functions, "<=" included.
InBounds(r, frame) == /\ memmap[r].base <= frame
                      /\ frame <= memmap[r].base + memmap[r].length

\* Plausible bug: the byte index is lost and a bit of the first byte is set.
MarkPageUsed_FirstByte(r, frame) ==
    /\ bitmap' = [bitmap EXCEPT ![r] = @ \union {(frame - memmap[r].base) % BitsPerByte}]
    /\ free_pages' = [free_pages EXCEPT ![r] = @ - 1]

\* pmm_region_mark_page_used: an address out of bounds leaves the region alone.
MarkPageUsed(r, frame) ==
    IF InBounds(r, frame)
    THEN /\ bitmap' = [bitmap EXCEPT ![r] = @ \union {frame - memmap[r].base}]
         /\ free_pages' = [free_pages EXCEPT ![r] = @ - 1]
    ELSE UNCHANGED <<bitmap, free_pages>>

\* Plausible bug: the page is marked but not counted.
MarkPageFree_NoCount(r, frame) ==
    /\ bitmap' = [bitmap EXCEPT ![r] = @ \ {frame - memmap[r].base}]
    /\ UNCHANGED free_pages

\* Plausible bug: copied from mark_page_used, it counts down.
MarkPageFree_CountsDown(r, frame) ==
    /\ bitmap' = [bitmap EXCEPT ![r] = @ \ {frame - memmap[r].base}]
    /\ free_pages' = [free_pages EXCEPT ![r] = @ - 1]

\* pmm_region_mark_page_free: clears the bit and counts, whatever the bit was.
MarkPageFree(r, frame) ==
    IF InBounds(r, frame)
    THEN /\ bitmap' = [bitmap EXCEPT ![r] = @ \ {frame - memmap[r].base}]
         /\ free_pages' = [free_pages EXCEPT ![r] = @ + 1]
    ELSE UNCHANGED <<bitmap, free_pages>>

-----------------------------------------------------------------------------
(* pmm_init.                                                               *)

\* Something of every region, summed up in the order of the memory map, as
\* pmm_detect_memory does with the lengths.
SumOf(f) ==
    LET sum[n \in 0 .. NumRegions] == IF n = 0 THEN 0 ELSE sum[n - 1] + f[n - 1]
    IN  sum[NumRegions]

\* Plausible bug: no room is reserved for the bitmaps.
RequiredPages_NoBitmaps(map) == CeilDiv(NumRegions * StructSize, PageSize)

\* pmm_get_num_required_pages: the bitmaps are sized from the total number of
\* pages, rounded up once.
RequiredPages(map) ==
    CeilDiv(NumRegions * StructSize
              + CeilDiv(SumOf([r \in Regions |-> map[r].length]), BitsPerByte),
            PageSize)

Suitable(map) == {r \in Regions : map[r].usable /\ map[r].length >= RequiredPages(map)}

\* The first usable region that is long enough keeps the PMM's own data.
Home(map) == CHOOSE r \in Suitable(map) : \A s \in Suitable(map) : r <= s

\* Plausible bug: the PMM's own pages are not marked.
RegionBitmap_OwnPagesFree(map, r) == IF map[r].usable THEN {} ELSE Bits(map, r)

RegionBitmap(map, r) ==
    IF ~map[r].usable THEN Bits(map, r)
    ELSE IF r = Home(map) THEN 0 .. RequiredPages(map) - 1 ELSE {}

RegionFreePages(map, r) ==
    IF ~map[r].usable THEN 0
    ELSE IF r = Home(map) THEN map[r].length - RequiredPages(map) ELSE map[r].length

Init == /\ memmap \in {map \in MemoryMaps : Suitable(map) # {}}
        /\ bitmap = [r \in Regions |-> RegionBitmap(memmap, r)]
        /\ free_pages = [r \in Regions |-> RegionFreePages(memmap, r)]
        /\ region_cache = 0
        /\ bitmap_cache = 0
        /\ scan = Idle
        /\ ptr = NULL
        /\ held = {}

-----------------------------------------------------------------------------
(* pmm_alloc.                                                              *)

AllocCall == /\ scan = Idle
             /\ scan' = 0
             /\ UNCHANGED <<memmap, bitmap, free_pages, region_cache, bitmap_cache, ptr, held>>

\* Plausible bug: the search stops at the end of the array instead of wrapping.
ScannedRegion_NoWrap ==
    IF scan + region_cache < NumRegions THEN scan + region_cache ELSE NumRegions - 1

ScannedRegion == (scan + region_cache) % NumRegions

Scanning == scan < NumRegions

\* Plausible bug: continue without counting the iteration.
SkipRegion_NoCount == /\ Scanning
                      /\ free_pages[ScannedRegion] = 0
                      /\ UNCHANGED vars

\* The region claims to have no free page: go on with the next one.
SkipRegion == /\ Scanning
              /\ free_pages[ScannedRegion] = 0
              /\ scan' = scan + 1
              /\ UNCHANGED <<memmap, bitmap, free_pages, region_cache, bitmap_cache, ptr, held>>

ByteFull(r, byte) == ByteBits(byte) \subseteq bitmap[r]

\* The byte at which the search that starts at bitmap_cache stops.
IsFoundByte(r, byte) ==
    LET size == BitmapSize(memmap, r)
        At(j) == (j + bitmap_cache) % size
    IN  \E j \in 0 .. size - 1 : /\ byte = At(j)
                                 /\ ~ByteFull(r, byte)
                                 /\ \A i \in 0 .. j - 1 : ByteFull(r, At(i))

\* Plausible bug: the first bit of the byte is taken without testing it.
IsFoundBit_Untested(r, byte, bit) == \A b \in ByteBits(byte) : bit <= b

IsFoundBit(r, byte, bit) == /\ bit \in ByteBits(byte) \ bitmap[r]
                            /\ \A b \in ByteBits(byte) \ bitmap[r] : bit <= b

\* A byte with a clear bit is found; its first clear bit is the page.
TakePage ==
    /\ Scanning
    /\ free_pages[ScannedRegion] # 0
    /\ \E byte \in 0 .. BitmapSize(memmap, ScannedRegion) - 1 :
         /\ IsFoundByte(ScannedRegion, byte)
         /\ bitmap_cache' = byte
         /\ \E bit \in ByteBits(byte) :
              /\ IsFoundBit(ScannedRegion, byte, bit)
              /\ MarkPageUsed(ScannedRegion, FrameOf(ScannedRegion, bit))
              /\ ptr' = FrameOf(ScannedRegion, bit)
              /\ held' = held \union {FrameOf(ScannedRegion, bit)}
    /\ region_cache' = ScannedRegion
    /\ scan' = Idle
    /\ UNCHANGED memmap

\* The counter promises a page that the bitmap does not have: the loop goes on,
\* counting from the region_cache it has just overwritten.
FindNothing ==
    /\ Scanning
    /\ free_pages[ScannedRegion] # 0
    /\ \A byte \in 0 .. BitmapSize(memmap, ScannedRegion) - 1 : ByteFull(ScannedRegion, byte)
    /\ region_cache' = ScannedRegion
    /\ scan' = scan + 1
    /\ UNCHANGED <<memmap, bitmap, free_pages, bitmap_cache, ptr, held>>

AllocNull == /\ scan = NumRegions
             /\ scan' = Idle
             /\ ptr' = NULL
             /\ UNCHANGED <<memmap, bitmap, free_pages, region_cache, bitmap_cache, held>>

-----------------------------------------------------------------------------
(* pmm_free and pmm_check_page.                                            *)

\* get_region_containing_page for an address that some region contains; that
\* the binary search finds it is RegionSearch's theorem.
ContainingRegions(frame) ==
    {r \in Regions : memmap[r].base <= frame /\ frame < memmap[r].base + memmap[r].length}

PmmFree(frame) ==
    /\ scan = Idle
    /\ \/ \E r \in ContainingRegions(frame) : MarkPageFree(r, frame)
       \/ /\ ContainingRegions(frame) = {}          \* PMM_ERROR_ADDRESS_NOT_FOUND
          /\ UNCHANGED <<bitmap, free_pages>>
    /\ held' = held \ {frame}
    /\ UNCHANGED <<memmap, region_cache, bitmap_cache, scan, ptr>>

-----------------------------------------------------------------------------
(* Careful callers free what they hold, once; careless ones free any page   *)
(* of the memory map, as paging_unmap does with the bootloader's tables.    *)

Alloc == AllocCall \/ SkipRegion \/ TakePage \/ FindNothing \/ AllocNull

Free == \E frame \in held : PmmFree(frame)

FramesOf(map, r) == map[r].base .. map[r].base + map[r].length - 1

MappedFrames == UNION {FramesOf(memmap, r) : r \in Regions}

FreeAnything == \E frame \in MappedFrames :
                   /\ \A r \in Regions : free_pages[r] < MaxFreePages
                   /\ PmmFree(frame)

Next == Alloc \/ Free

Spec == Init /\ [][Next]_vars

CarelessSpec == Init /\ [][Alloc \/ FreeAnything]_vars

FairCarelessSpec == CarelessSpec /\ WF_vars(Alloc /\ scan # Idle)
-----------------------------------------------------------------------------
(* Properties.                                                             *)

FreeBits(r) == Bits(memmap, r) \ bitmap[r]

\* The pages pmm_alloc may hand out.
FreeFrames == UNION {{FrameOf(r, page) : page \in FreeBits(r)} : r \in Regions}

OwnFrames(map) == map[Home(map)].base .. map[Home(map)].base + RequiredPages(map) - 1

UsableRegions(map) == {r \in Regions : map[r].usable}

UsableFrames(map) == UNION {FramesOf(map, r) : r \in UsableRegions(map)}

\* The pages the PMM is there to manage: usable memory without its own data.
ManagedFrames(map) == UsableFrames(map) \ OwnFrames(map)

\* The frames into which the structs and all bitmaps really extend.
DataFrames(map) ==
    map[Home(map)].base ..
      map[Home(map)].base
        + CeilDiv(NumRegions * StructSize
                    + SumOf([r \in Regions |-> BitmapSize(map, r)]), PageSize) - 1

\* No usable region's last bitmap byte describes pages that do not exist.
NoPadding(map) ==
    \A r \in Regions : map[r].usable => BitmapSize(map, r) * BitsPerByte = map[r].length

\* Every region, usable or not, fills the last byte of its bitmap.
WholeBytes(map) == \A r \in Regions : BitmapSize(map, r) * BitsPerByte = map[r].length

\* The room it takes to round up once for every region, not once for all.
RoundingPages == CeilDiv(NumRegions - 1, PageSize)

AllocReturns == scan # Idle /\ scan' = Idle

\* Types of the variables; the caches stay valid indices into every array they
\* are used on only because pmm_alloc takes them modulo its size.
TypeOK == /\ IsMemoryMap(memmap)
          /\ \A r \in Regions : bitmap[r] \subseteq Bits(memmap, r)
          /\ DOMAIN bitmap = Regions
          /\ free_pages \in [Regions -> Nat]
          /\ region_cache \in Regions
          /\ bitmap_cache \in Nat
          /\ scan \in 0 .. NumRegions \/ scan = Idle
          /\ ptr \in Nat
          /\ held \in SUBSET Nat

\* free_pages is exactly the number of clear bits: pmm_alloc trusts it when it
\* skips a region, and nothing ever recounts it.
CountsAgree == \A r \in Regions : free_pages[r] = Cardinality(FreeBits(r))

\* No page is lost and none is both free and in use, whatever order callers
\* allocate and free in: the clear bits are the managed pages nobody holds.
PagesConserved == FreeFrames = ManagedFrames(memmap) \ held

\* Callers hold managed pages only: no reserved memory, no PMM data, no holes.
HeldPagesManaged == held \subseteq ManagedFrames(memmap)

\* pmm_alloc never returns a page that an earlier caller still has; of callers
\* who free what they hold this is part of what the abstract allocator promises.
HandedOutOnce == [][AllocReturns /\ ptr' # NULL => ptr' \notin held]_vars

\* pmm_alloc gives up only when every region is exhausted, although it looks at
\* each region once, skips by counter and starts where it last succeeded.
NullMeansNoMemory == [][AllocReturns /\ ptr' = NULL => FreeFrames = {}]_vars

\* The PMM's own data are protected from their users (pmm.c:111) where the lengths
\* are whole bytes of a bitmap.  Elsewhere the bitmaps, rounded up one by one, may
\* reach beyond the pages that were reserved for their sum (the @todo of
\* pmm.c:117), but by no more than that: what is handed out are pages at the end.
DataProtected ==
    \A frame \in held \cap DataFrames(memmap) :
        /\ ~WholeBytes(memmap)
        /\ frame + RoundingPages \notin DataFrames(memmap)

\* Whatever is freed, a counter never falls below the number of clear bits, so
\* a region with a free page is never taken for a full one.
CountNeverTooSmall == \A r \in Regions : free_pages[r] >= Cardinality(FreeBits(r))

\* Whatever is freed, pmm_alloc hands out a page whose bit was clear and sets
\* that bit and no other.
TakesOneFreePage ==
    [][AllocReturns /\ ptr' # NULL => /\ ptr' \in FreeFrames
                                     /\ FreeFrames' = FreeFrames \ {ptr'}]_vars

\* pmm_alloc returns even when counters and bitmaps disagree.
AllocTerminates == scan = 0 ~> scan = Idle

\* The allocator callers see: free is what the bitmaps say.
Allocator == INSTANCE PageAllocator WITH Frames <- Nat, free <- FreeFrames

\* The bitmaps, counters and caches implement the abstract allocator.
ImplementsAllocator == Allocator!Spec
==============================================================================
