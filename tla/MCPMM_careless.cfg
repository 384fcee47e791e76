\* Page counts are multiples of BitsPerByte; any page may be freed, any number of times.
SPECIFICATION FairCarelessSpec
CONSTANTS
    NumRegions = 3
    BitsPerByte = 2
    PageSize = 16
    StructSize = 1
    MaxFreePages = 3
    Lengths = {2}
    ReservedLengths = {2}
    Holes = {0}
    MemoryMaps <- MCMaps
INVARIANT CountNeverTooSmall
PROPERTIES TakesOneFreePage AllocTerminates
