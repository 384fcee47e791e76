----------------------------- MODULE MCPMMSearch -----------------------------
(* Two models of the physical memory manager in one run.  Its callers free    *)
(* what they hold.  And get_region_containing_page searches tables of regions *)
(* with lengths from SearchLengths and holes from SearchHoles.  They share no *)
(* state, and each moves only while the other has not begun: every behaviour  *)
(* is one of Spec and one of SearchSpec.                                      *)
EXTENDS MCPMM, RegionSearch

CONSTANTS SearchLengths, SearchHoles

MaxOf(S) == CHOOSE x \in S : \A y \in S : y <= x

TableOf(length, hole) ==
    LET Start[r \in Indices] ==
          hole[r] + (IF r = 0 THEN 0 ELSE Start[r - 1] + length[r - 1])
    IN  [r \in Indices |-> [base |-> Start[r], length |-> length[r]]]

MCTables == {TableOf(length, hole) :
               length \in [Indices -> SearchLengths], hole \in [Indices -> SearchHoles]}

\* Every address inside or between regions, and one behind the longest table.
MCAddresses == 0 .. TableSize * (MaxOf(SearchLengths) + MaxOf(SearchHoles))

-----------------------------------------------------------------------------

\* One input and one memory map stand for the model that does not move.
FirstTable == CHOOSE table \in MCTables : TRUE
FirstMap == CHOOSE map \in MCMaps : Suitable(map) # {}

FirstSearch == regions = FirstTable /\ address = 0
FirstMemory == memmap = FirstMap

MemoryInit == Init /\ SearchInit /\ (FirstMemory \/ FirstSearch)

MemoryNext == \/ /\ i = 0 /\ FirstSearch
                 /\ Next
                 /\ UNCHANGED searchVars
              \/ /\ FirstMemory /\ scan = Idle /\ held = {} /\ Init
                 /\ SearchNext
                 /\ UNCHANGED vars

MemorySpec == MemoryInit /\ [][MemoryNext]_<<vars, searchVars>>
==============================================================================
