SPECIFICATION OutputSpec
CONSTANTS
    Width = 78
    Height = 66
    Stride = 80
    Printable <- MCPrintable
    FifoDepth = 16
    MaxKeys = 3
    Typed <- MCTyped
    Faults <- MCFaults
    IntHalf = 8
    LongHalf = 32
    Bases <- MCBases
    Parts <- MCParts
    Vectors <- MCVectors
    ErrorCodes <- MCErrorCodes
    Addresses <- MCAddresses
INVARIANTS
    InsideFramebuffer
    SerialKeepsText
    NumbersReadBack
    FormatsCompose
    ReportsNameTheFault
PROPERTIES
    TextInOrder
    EverythingIsWritten
    UsesTerminalAndPort
CHECK_DEADLOCK FALSE
