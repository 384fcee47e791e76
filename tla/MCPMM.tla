-------------------------------- MODULE MCPMM --------------------------------
(* Three regions with small lengths, with and without a hole between them.  *)
EXTENDS PMM

CONSTANTS Lengths,           \* lengths a usable region may have
          ReservedLengths,   \* lengths any other region may have
          Holes              \* frames between two regions

MapOf(length, hole, usable) ==
    LET Start[r \in Regions] ==
          IF r = 0 THEN 1 ELSE Start[r - 1] + length[r - 1] + (IF r = 2 THEN hole ELSE 0)
    IN  [r \in Regions |-> [base |-> Start[r], length |-> length[r], usable |-> usable[r]]]

MCMaps == {map \in {MapOf(length, hole, usable) :
                      length \in [Regions -> Lengths \union ReservedLengths],
                      hole \in Holes, usable \in [Regions -> BOOLEAN]} :
             \A r \in Regions :
               map[r].length \in IF map[r].usable THEN Lengths ELSE ReservedLengths}
==============================================================================
