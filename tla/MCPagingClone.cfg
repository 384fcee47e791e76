\* The new PML4 happens to be zero.
SPECIFICATION CloneSpec
CONSTANTS
    Index = {0, 1}
    TableFrames = {1, 2, 3, 4, 5, 6, 7, 8, 9, 10}
    DataFrames = {31, 32}
    Pages <- MCPages
    Dirty = FALSE
INVARIANT TablesOfTwo
PROPERTIES CloneMapsTheSame OldSpaceUntouched
