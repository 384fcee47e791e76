\* Page counts that are no multiple of BitsPerByte.
SPECIFICATION Spec
CONSTANTS
    NumRegions = 3
    BitsPerByte = 2
    PageSize = 4
    StructSize = 1
    MaxFreePages = 0
    Lengths = {3, 4, 5}
    ReservedLengths = {3, 4, 5}
    Holes = {0, 1}
    MemoryMaps <- MCMaps
INVARIANT HeldPagesManaged

