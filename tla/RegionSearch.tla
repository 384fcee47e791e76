----------------------------- MODULE RegionSearch -----------------------------
(***************************************************************************)
(* get_region_containing_page (kernel/src/memory/pmm.c): the binary search *)
(* over pmm_regions[], one action per iteration.  The bounds are size_t,   *)
(* so they wrap modulo SizeModulus (2^64), and so does the address of      *)
(* pmm_regions[i]: elements that are Period apart are the same memory.     *)
(* Reading an element that is no region yields whatever memory holds.      *)
(***************************************************************************)
EXTENDS Integers, FiniteSets

CONSTANTS TableSize,     \* pmm_num_regions
          SizeModulus,   \* 2^64
          Period,        \* distance of two indices that name the same memory
          Tables,        \* the tables of regions to search
          Addresses      \* the addresses to search for

Indices == 0 .. TableSize - 1

Sizes == 0 .. SizeModulus - 1

TableEntry == [base : Nat, length : Nat \ {0}]

IsTable(table) ==
    /\ table \in [Indices -> TableEntry]
    /\ \A r, s \in Indices : r < s => table[r].base + table[r].length <= table[s].base

\* The kernel has far fewer regions than half of what a size_t counts.
ASSUME SearchAssumption == /\ TableSize \in Nat \ {0}
                           /\ SizeModulus \in Nat
                           /\ 2 * TableSize < SizeModulus
                           /\ Period \in Nat
                           /\ TableSize <= Period
                           /\ Addresses \subseteq Nat
ASSUME TablesAssumption == \A table \in Tables : IsTable(table)

VARIABLES regions,        \* pmm_regions[], which a search only reads
          address,        \* the address searched for
          lower_bound, upper_bound,
          region_index,   \* the result parameter
          i,              \* iterations done
          status          \* Searching, PMM_OK or PMM_ERROR_ADDRESS_NOT_FOUND

searchVars == <<regions, address, lower_bound, upper_bound, region_index, i, status>>

Searching == "searching"
PMM_OK == "ok"
PMM_ERROR_ADDRESS_NOT_FOUND == "address not found"

\* size_t arithmetic on two values less than SizeModulus.
Plus(a, b) == IF a + b < SizeModulus THEN a + b ELSE a + b - SizeModulus
Minus(a, b) == IF b <= a THEN a - b ELSE a - b + SizeModulus

SearchInit ==
    /\ regions \in Tables
    /\ address \in Addresses
    /\ lower_bound = 0
    /\ upper_bound = TableSize - 1
    /\ region_index = 0                 \* written before it is read
    /\ i = 0
    /\ status = Searching

\* Plausible bug: a linear search.
Middle_Linear == lower_bound

Middle == Plus(lower_bound, Minus(upper_bound, lower_bound) \div 2)

\* Plausible bug: the first page of a region is taken to lie below it.
Below_Inclusive(index) == index % Period \in Indices => regions[index % Period].base >= address

\* What the comparisons with pmm_regions[index] find.
Below(index) == index % Period \in Indices => regions[index % Period].base > address
Above(index) == index % Period \in Indices =>
                   address > regions[index % Period].base + regions[index % Period].length - 1
Inside(index) == index % Period \in Indices =>
                   /\ regions[index % Period].base <= address
                   /\ address <= regions[index % Period].base + regions[index % Period].length - 1

Probing == /\ status = Searching
           /\ i < TableSize
           /\ region_index' = Middle
           /\ i' = i + 1
           /\ UNCHANGED <<regions, address>>

GoBelow == /\ Probing
           /\ Below(Middle)
           /\ upper_bound' = Minus(Middle, 1)
           /\ UNCHANGED <<lower_bound, status>>

\* Plausible bug: the region that was just excluded stays in the window.
GoAbove_KeepsMiddle == /\ Probing
                       /\ Above(Middle)
                       /\ lower_bound' = Middle
                       /\ UNCHANGED <<upper_bound, status>>

GoAbove == /\ Probing
           /\ Above(Middle)
           /\ lower_bound' = Plus(Middle, 1)
           /\ UNCHANGED <<upper_bound, status>>

Found == /\ Probing
         /\ Inside(Middle)
         /\ status' = PMM_OK
         /\ UNCHANGED <<lower_bound, upper_bound>>

GiveUp == /\ status = Searching
          /\ i = TableSize
          /\ status' = PMM_ERROR_ADDRESS_NOT_FOUND
          /\ UNCHANGED <<regions, address, lower_bound, upper_bound, region_index, i>>

SearchNext == GoBelow \/ GoAbove \/ Found \/ GiveUp

SearchSpec == SearchInit /\ [][SearchNext]_searchVars

-----------------------------------------------------------------------------
(* Properties.                                                             *)

Contains(r) == /\ regions[r].base <= address
               /\ address < regions[r].base + regions[r].length

Contained == \E r \in Indices : Contains(r)

SearchTypeOK ==
    /\ IsTable(regions)
    /\ address \in Addresses
    /\ {lower_bound, upper_bound, region_index} \subseteq Sizes
    /\ i \in 0 .. TableSize
    /\ status \in {Searching, PMM_OK, PMM_ERROR_ADDRESS_NOT_FOUND}

\* An address inside a region is found, and in the right region, although the
\* loop stops after as many iterations as there are regions.
FindsRegion == Contained => /\ status = PMM_OK => /\ region_index \in Indices
                                                  /\ Contains(region_index)
                            /\ status # PMM_ERROR_ADDRESS_NOT_FOUND

\* While it searches for such an address it reads elements of the table only.
ReadsTableOnly == Contained /\ status = Searching /\ i < TableSize => Middle \in Indices

\* 2^n, for as many n as the loop has iterations.
PowerOfTwo(n) ==
    LET power[k \in 0 .. TableSize] == IF k = 0 THEN 1 ELSE 2 * power[k - 1] IN power[n]

\* The worst case the comment in the loop relies on (pmm.c:193-198): the
\* number of iterations is at most logarithmic in the number of regions.
LogarithmicSearch == Contained /\ i > 0 => PowerOfTwo(i - 1) <= TableSize
==============================================================================
