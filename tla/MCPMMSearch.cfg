\* Page counts of usable regions are multiples of BitsPerByte; callers free what they hold.
\* size_t has 5 bits; sizeof(struct pmm_region_t) = 48 makes indices alias
\* modulo 2^60 in the kernel, modulo 2^4 here.
SPECIFICATION MemorySpec
CONSTANTS
    NumRegions = 3
    BitsPerByte = 2
    PageSize = 4
    StructSize = 1
    MaxFreePages = 0
    Lengths = {2, 4}
    ReservedLengths = {2, 3}
    Holes = {0, 1}
    MemoryMaps <- MCMaps
    TableSize = 5
    SizeModulus = 32
    Period = 16
    SearchLengths = {1, 2}
    SearchHoles = {0, 1}
    Tables <- MCTables
    Addresses <- MCAddresses
INVARIANTS TypeOK CountsAgree PagesConserved HeldPagesManaged DataProtected
           FindsRegion ReadsTableOnly LogarithmicSearch
PROPERTIES NullMeansNoMemory ImplementsAllocator
CHECK_DEADLOCK FALSE
