\* Callers that follow the rules.
SPECIFICATION Spec
CONSTANTS
    Index = {0, 1}
    TableFrames = {3, 4, 5, 6, 7}
    DataFrames = {1, 2}
    Pages <- MCPages
INVARIANTS TablesFormTree TablesAccounted TlbCoherent ResolveAgrees
PROPERTIES DataUntouched ImplementsAddressSpace
