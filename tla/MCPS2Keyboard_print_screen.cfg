\* Print Screen is typed.
SPECIFICATION Spec
CONSTANTS
    SIZE = 2
    Events <- MCEvents
    NoEvent <- MCNoEvent
    Keys = {"A", "PRINT_SCREEN"}
    Repeating = {}
    MaxLine = 4
PROPERTY DecodesFaithfully
